---- MODULE Spec2Model ----
(***************************************************************************)
(* A model of the OVSDB database-file layer (ovsdb/file.c) and of the      *)
(* parts of ovsdb-tool that drive it: opening a log and replaying it into  *)
(* an in-memory database, committing transactions as JSON deltas,          *)
(* compacting the log, and the crash behaviour of the log underneath.      *)
(*                                                                         *)
(* The log container (ovsdb_log), the transaction engine (ovsdb_txn)       *)
(* and the datum layer are collaborators whose code is outside file.c;     *)
(* they are modelled from their documented contracts.                      *)
(***************************************************************************)
EXTENDS Integers, Sequences, FiniteSets, TLC

(***************************************************************************)
(* Program constants.                                                      *)
(***************************************************************************)
COMPACT_MIN_MSEC == 600000

COMPACT_RETRY_MSEC == 60000

\* "at least 100 transactions in the database"
GateMinTransactions == 100

\* "the database is at least 10 MB": 10 * 1024 * 1024
GateMinLogSize == 10485760

\* "at least 4x the size of the previous snapshot"
GateRatio == 4

(***************************************************************************)
(* JSON values.  Every value is a record with a "type" field so that any   *)
(* two values can be compared.  NoJson is the NULL pointer.                *)
(***************************************************************************)
NoJson == [type |-> "NULL"]

JNull == [type |-> "null"]

JInt(i) == [type |-> "integer", int |-> i]

JStr(s) == [type |-> "string", str |-> s]

JObj(m) == [type |-> "object", obj |-> m]

EmptyMap == [x \in {} |-> JNull]

json_object_create == JObj(EmptyMap)

\* json_object_put(): adds or replaces member k.
json_object_put(j, k, v) ==
    JObj([x \in (DOMAIN j.obj) \cup {k} |-> IF x = k THEN v ELSE j.obj[x]])

(***************************************************************************)
(* Schemas.  A schema maps each table name to its columns; "eph" are the   *)
(* columns that are not persistent and "max_rows" the table's maxRows      *)
(* constraint.  Every table has the "_uuid" column.                        *)
(***************************************************************************)
OVSDB_COL_UUID == "_uuid"

FullSchema ==
    [T |-> [cols |-> {"_uuid", "k", "v"}, eph |-> {}, max_rows |-> 3],
     S |-> [cols |-> {"_uuid", "e"}, eph |-> {"e"}, max_rows |-> 1]]

\* Alternate schemas for converting opens: one omits table S, one omits
\* column v of table T.
SchemaNoS == [T |-> [cols |-> {"_uuid", "k", "v"}, eph |-> {}, max_rows |-> 3]]

SchemaNoV ==
    [T |-> [cols |-> {"_uuid", "k"}, eph |-> {}, max_rows |-> 3],
     S |-> [cols |-> {"_uuid", "e"}, eph |-> {"e"}, max_rows |-> 1]]

\* The values a column may hold (its type's range) and the type's default.
Values == {0, 1}

DefaultDatum == 0

ovsdb_datum_is_default(v) == v = DefaultDatum

ovsdb_datum_to_json(v) == JInt(v)

\* ovsdb_datum_from_json(): an error unless the JSON is an integer in range.
datum_from_json_ok(j) == j.type = "integer" /\ j.int \in Values

\* uuid_from_string(): the strings that parse as UUIDs.
Uuids == {"u1", "u2", "u3"}

uuid_from_string_ok(s) == s \in Uuids

(***************************************************************************)
(* Rows and databases.  A row maps each column of its table to a value;    *)
(* a database is its schema and, per table, the rows keyed by UUID.        *)
(***************************************************************************)
NoRow == [present |-> FALSE]

SomeRow(f) == [present |-> TRUE, fields |-> f]

\* ovsdb_row_create() followed by setting the UUID.
ovsdb_row_create(schema, t, u) ==
    [c \in schema[t].cols |-> IF c = OVSDB_COL_UUID THEN u ELSE DefaultDatum]

ovsdb_create(schema) ==
    [schema |-> schema, tables |-> [t \in DOMAIN schema |-> EmptyMap]]

ovsdb_table_get_row(tables, t, u) ==
    IF u \in DOMAIN tables[t] THEN SomeRow(tables[t][u]) ELSE NoRow

\* Install row f under UUID u (ovsdb_txn_row_insert or a modified row).
PutRow(tables, t, u, f) ==
    [tables EXCEPT ![t] =
        [x \in (DOMAIN tables[t]) \cup {u} |-> IF x = u THEN f ELSE tables[t][x]]]

\* ovsdb_txn_row_delete().
DelRow(tables, t, u) ==
    [tables EXCEPT ![t] = [x \in (DOMAIN tables[t]) \ {u} |-> tables[t][x]]]

(***************************************************************************)
(* Transaction codec, encoding side.                                       *)
(*                                                                         *)
(* A change is [table, uuid, old, new, changed]: old and new are NoRow or  *)
(* SomeRow(fields), changed is the set of columns whose bit is set in the  *)
(* engine's bitmap.  ftxn is struct ovsdb_file_txn: json is NoJson until   *)
(* the first row is added, table is "" for a null table pointer, and       *)
(* table_json is the member json.obj[table].                               *)
(***************************************************************************)
ovsdb_file_txn_init == [json |-> NoJson, table |-> ""]

\* A faulty encoder: the bitmap of changed columns is consulted for
\* inserted rows too.
EmittedColumns_bitmap(schema, ch) ==
    {c \in schema[ch.table].cols :
        /\ c # OVSDB_COL_UUID
        /\ c \notin schema[ch.table].eph
        /\ c \in ch.changed}

\* A faulty encoder: columns that are not persistent are written too.
EmittedColumns_eph(schema, ch) ==
    {c \in schema[ch.table].cols :
        /\ c # OVSDB_COL_UUID
        /\ IF ch.old.present
           THEN c \in ch.changed
           ELSE ~ovsdb_datum_is_default(ch.new.fields[c])}

\* The columns ovsdb_file_txn_add_row() writes for a row that has a new
\* version: persistent, not the UUID column, and changed (modify) or not
\* default (insert).
EmittedColumns(schema, ch) ==
    {c \in schema[ch.table].cols :
        /\ c # OVSDB_COL_UUID
        /\ c \notin schema[ch.table].eph
        /\ IF ch.old.present
           THEN c \in ch.changed
           ELSE ~ovsdb_datum_is_default(ch.new.fields[c])}

\* A faulty encoder: the row's object is created for a modified row as
\* it is for an inserted one, before the columns are looked at.
RowJson_create(schema, ch) ==
    IF ~ch.new.present
    THEN JNull
    ELSE JObj([c \in EmittedColumns(schema, ch) |->
                  ovsdb_datum_to_json(ch.new.fields[c])])

\* The JSON for one row, NoJson when the row is to be left out.
RowJson(schema, ch) ==
    IF ~ch.new.present
    THEN JNull
    ELSE LET cols == EmittedColumns(schema, ch)
         IN  IF ch.old.present /\ cols = {}
             THEN NoJson
             ELSE JObj([c \in cols |-> ovsdb_datum_to_json(ch.new.fields[c])])

\* A faulty encoder: every row gets a fresh table_json, also a row of the
\* current table.
AddRowJson_fresh(json0, cur_table, table, uuid, row) ==
    json_object_put(json0, table,
                    json_object_put(json_object_create, uuid, row))

\* The end of ovsdb_file_txn_add_row(): row, not NoJson, is put under
\* the row's UUID in the table's object.  A table other than the current
\* one gets a fresh table_json, put under the table's name.
AddRowJson(json0, cur_table, table, uuid, row) ==
    json_object_put(
        json0, table,
        json_object_put(IF table # cur_table
                        THEN json_object_create
                        ELSE json0.obj[table],
                        uuid, row))

AddRow(ftxn, table, uuid, row) ==
    IF row = NoJson
    THEN ftxn
    ELSE [json |-> AddRowJson(IF ftxn.json = NoJson
                              THEN json_object_create
                              ELSE ftxn.json,
                              ftxn.table, table, uuid, row),
          table |-> table]

ovsdb_file_txn_add_row(ftxn, schema, ch) ==
    AddRow(ftxn, ch.table, ch.uuid, RowJson(schema, ch))

\* ovsdb_txn_for_each_change() with ovsdb_file_change_cb: the changes are
\* handed to the encoder one by one, in the order of the sequence.
RECURSIVE EncodeChanges(_, _, _)
EncodeChanges(ftxn, schema, changes) ==
    IF changes = <<>>
    THEN ftxn
    ELSE EncodeChanges(ovsdb_file_txn_add_row(ftxn, schema, Head(changes)),
                       schema, Tail(changes))

\* ovsdb_file_txn_commit(), the JSON it hands to ovsdb_log_write(): the
\* delta (an empty object when there is none) with "_comment", if any, and
\* "_date" set to the wall clock.
TxnRecordJson(json, comment, wall) ==
    LET j0 == IF json = NoJson THEN json_object_create ELSE json
        j1 == IF comment # "" THEN json_object_put(j0, "_comment", JStr(comment))
              ELSE j0
    IN  json_object_put(j1, "_date", JInt(wall))

(***************************************************************************)
(* Transaction codec, decoding side.  Each function returns                *)
(* [err, tables]: tables is the table contents with the operations decoded *)
(* so far applied (the engine applies them to the tables as they are       *)
(* made, and ovsdb_txn_abort() undoes them).                               *)
(***************************************************************************)
\* Some order of iteration over the members of a JSON object.
NextKey(keys) == CHOOSE k \in keys : TRUE

\* A faulty ovsdb_file_update_row_from_json(): the columns that the JSON
\* does not list are set to the default.
ovsdb_file_update_row_from_json_reset(tschema, fields, converting, json) ==
    IF json.type # "object"
    THEN [err |-> TRUE, fields |-> fields]
    ELSE IF \E c \in DOMAIN json.obj :
                \/ c \notin tschema.cols /\ ~converting
                \/ c \in tschema.cols /\ ~datum_from_json_ok(json.obj[c])
    THEN [err |-> TRUE, fields |-> fields]
    ELSE [err |-> FALSE,
          fields |-> [c \in DOMAIN fields |->
                        IF c \in DOMAIN json.obj THEN json.obj[c].int
                        ELSE IF c = OVSDB_COL_UUID THEN fields[c]
                        ELSE DefaultDatum]]

\* ovsdb_file_update_row_from_json() on a row with contents fields:
\* [err, fields].
ovsdb_file_update_row_from_json(tschema, fields, converting, json) ==
    IF json.type # "object"
    THEN [err |-> TRUE, fields |-> fields]
    ELSE LET names == DOMAIN json.obj
             unknown == {c \in names : c \notin tschema.cols}
             known == names \ unknown
             bad == {c \in known : ~datum_from_json_ok(json.obj[c])}
         IN  IF (unknown # {} /\ ~converting) \/ bad # {}
             THEN [err |-> TRUE, fields |-> fields]
             ELSE [err |-> FALSE,
                   fields |-> [c \in DOMAIN fields |->
                                 IF c \in known THEN json.obj[c].int
                                 ELSE fields[c]]]

\* The row operation made with the outcome r of
\* ovsdb_file_update_row_from_json(): the row is installed (inserted, or
\* modified in place) unless r is an error.
RowInstalled(tables, t, u, r) ==
    IF r.err
    THEN [err |-> TRUE, tables |-> tables]
    ELSE [err |-> FALSE, tables |-> PutRow(tables, t, u, r.fields)]

\* A faulty ovsdb_file_txn_row_from_json(): deleting a row that does not
\* exist is not an error.
RowFromJson_lenient(schema, tables, t, converting, u, json, row) ==
    IF json.type = "null"
    THEN [err |-> FALSE, tables |-> DelRow(tables, t, u)]
    ELSE RowInstalled(tables, t, u,
             ovsdb_file_update_row_from_json(
                 schema[t],
                 IF row.present THEN row.fields
                 ELSE ovsdb_row_create(schema, t, u),
                 converting, json))

RowFromJson(schema, tables, t, converting, u, json, row) ==
    IF json.type = "null"
    THEN IF ~row.present
         THEN [err |-> TRUE, tables |-> tables]
         ELSE [err |-> FALSE, tables |-> DelRow(tables, t, u)]
    ELSE RowInstalled(tables, t, u,
             ovsdb_file_update_row_from_json(
                 schema[t],
                 IF row.present THEN row.fields
                 ELSE ovsdb_row_create(schema, t, u),
                 converting, json))

ovsdb_file_txn_row_from_json(schema, tables, t, converting, u, json) ==
    RowFromJson(schema, tables, t, converting, u, json,
                ovsdb_table_get_row(tables, t, u))

RECURSIVE TableRowsFromJson(_, _, _, _, _)

\* After one row: an error ends the loop, else the loop goes on.
TableRowsNext(schema, t, converting, obj, rest, r) ==
    IF r.err
    THEN r
    ELSE TableRowsFromJson(schema, r.tables, t, converting,
                           [x \in rest |-> obj[x]])

\* The loop of ovsdb_file_txn_table_from_json() over the members obj.
TableRowsFromJson(schema, tables, t, converting, obj) ==
    IF DOMAIN obj = {}
    THEN [err |-> FALSE, tables |-> tables]
    ELSE IF ~uuid_from_string_ok(NextKey(DOMAIN obj))
    THEN [err |-> TRUE, tables |-> tables]
    ELSE TableRowsNext(schema, t, converting, obj,
                       (DOMAIN obj) \ {NextKey(DOMAIN obj)},
                       ovsdb_file_txn_row_from_json(
                           schema, tables, t, converting,
                           NextKey(DOMAIN obj), obj[NextKey(DOMAIN obj)]))

ovsdb_file_txn_table_from_json(schema, tables, t, converting, json) ==
    IF json.type # "object"
    THEN [err |-> TRUE, tables |-> tables]
    ELSE TableRowsFromJson(schema, tables, t, converting, json.obj)

RECURSIVE TxnTablesFromJson(_, _, _, _)

\* After one table: an error ends the loop, else the loop goes on.
TxnTablesNext(schema, converting, obj, rest, r) ==
    IF r.err
    THEN r
    ELSE TxnTablesFromJson(schema, r.tables, converting,
                           [x \in rest |-> obj[x]])

\* A faulty ovsdb_file_txn_from_json(): converting is not consulted.
UnknownTable_strict(name, value, converting) ==
    IF name = "_date" /\ value.type = "integer"
    THEN "skip"
    ELSE IF name = "_comment"
    THEN "skip"
    ELSE "error"

\* A faulty ovsdb_file_txn_from_json(): "_comment" is skipped only when
\* its value is a string.
UnknownTable_comment(name, value, converting) ==
    IF name = "_date" /\ value.type = "integer"
    THEN "skip"
    ELSE IF (name = "_comment" /\ value.type = "string") \/ converting
    THEN "skip"
    ELSE "error"

\* What ovsdb_file_txn_from_json() does with member "name" of the delta
\* when the database has no table of that name: "skip" or "error".
UnknownTable(name, value, converting) ==
    IF name = "_date" /\ value.type = "integer"
    THEN "skip"
    ELSE IF name = "_comment" \/ converting
    THEN "skip"
    ELSE "error"

\* The loop of ovsdb_file_txn_from_json() over the members obj.
TxnTablesFromJson(schema, tables, converting, obj) ==
    IF DOMAIN obj = {}
    THEN [err |-> FALSE, tables |-> tables]
    ELSE IF NextKey(DOMAIN obj) \notin DOMAIN schema
    THEN IF UnknownTable(NextKey(DOMAIN obj), obj[NextKey(DOMAIN obj)],
                         converting) = "skip"
         THEN TxnTablesFromJson(schema, tables, converting,
                  [x \in (DOMAIN obj) \ {NextKey(DOMAIN obj)} |-> obj[x]])
         ELSE [err |-> TRUE, tables |-> tables]
    ELSE TxnTablesNext(schema, converting, obj,
                       (DOMAIN obj) \ {NextKey(DOMAIN obj)},
                       ovsdb_file_txn_table_from_json(
                           schema, tables, NextKey(DOMAIN obj), converting,
                           obj[NextKey(DOMAIN obj)]))

\* A faulty "error:" label: the transaction is not aborted.
TxnOrAbort_keep(db, r) == r

\* The "error:" label of ovsdb_file_txn_from_json(): r is what the loop
\* left; on an error ovsdb_txn_abort() puts the tables back as they were.
TxnOrAbort(db, r) ==
    IF r.err
    THEN [err |-> TRUE, tables |-> db.tables]
    ELSE r

\* ovsdb_file_txn_from_json(): on success the transaction (the tables as
\* it would leave them); on any error the transaction is aborted.
ovsdb_file_txn_from_json(db, json, converting) ==
    IF json.type # "object"
    THEN [err |-> TRUE, tables |-> db.tables]
    ELSE TxnOrAbort(db, TxnTablesFromJson(db.schema, db.tables, converting,
                                          json.obj))

\* ovsdb_txn_commit(txn, false) of a replayed transaction: the engine
\* refuses a transaction that leaves a table with more rows than its
\* maxRows and aborts it.
ovsdb_txn_commit(db, tables) ==
    IF \E t \in DOMAIN db.schema :
           Cardinality(DOMAIN tables[t]) > db.schema[t].max_rows
    THEN [err |-> TRUE, db |-> db]
    ELSE [err |-> FALSE, db |-> [db EXCEPT !.tables = tables]]

(***************************************************************************)
(* The log container.  The file is a sequence of records; a record is its  *)
(* JSON payload, its length in bytes, and whether it is intact (a record   *)
(* cut short or with a bad checksum is not).  A log handle is positioned   *)
(* after the pos first records.                                            *)
(***************************************************************************)
Rec(json, len) == [json |-> json, len |-> len, ok |-> TRUE]

\* The byte offset just past the first i records.
RECURSIVE Offset(_, _)
Offset(d, i) == IF i = 0 THEN 0 ELSE Offset(d, i - 1) + d[i].len

\* ovsdb_log_read() at position pos: "eof", "error" (the position stays
\* before the bad record) or "json".
ovsdb_log_read(d, pos) ==
    IF pos >= Len(d) THEN "eof"
    ELSE IF ~d[pos + 1].ok THEN "error"
    ELSE "json"

\* ovsdb_log_write() at position pos: the record is placed at the log's
\* position, and what the file held from there on is gone.
ovsdb_log_write(d, pos, rec) == Append(SubSeq(d, 1, pos), rec)

\* ovsdb_schema_to_json() and ovsdb_schema_from_json().
ovsdb_schema_to_json(schema) ==
    JObj([name |-> JStr("mini"),
          tables |-> [type |-> "object", schema |-> schema]])

schema_from_json_ok(j) ==
    /\ j.type = "object"
    /\ {"name", "tables"} \subseteq DOMAIN j.obj
    /\ j.obj["tables"].type = "object"
    /\ "schema" \in DOMAIN j.obj["tables"]

ovsdb_schema_from_json(j) == j.obj["tables"].schema

(***************************************************************************)
(* ovsdb_file_open().                                                      *)
(***************************************************************************)
NoSchema == [none |-> TRUE]

\* A faulty ovsdb_file_open_log(): record 0 is parsed as a schema also
\* when the caller does not ask for the schema.
ovsdb_file_open_log_parse(d, want_schema) ==
    IF ovsdb_log_read(d, 0) # "json" \/ ~schema_from_json_ok(d[1].json)
    THEN [err |-> TRUE, schema |-> NoSchema]
    ELSE [err |-> FALSE,
          schema |-> IF want_schema THEN ovsdb_schema_from_json(d[1].json)
                     ELSE NoSchema]

\* ovsdb_file_open_log(): reads record 0 and, unless an alternate schema
\* is given (want_schema is false), parses it as the schema.
ovsdb_file_open_log(d, want_schema) ==
    IF ovsdb_log_read(d, 0) # "json"
    THEN [err |-> TRUE, schema |-> NoSchema]
    ELSE IF want_schema
    THEN IF schema_from_json_ok(d[1].json)
         THEN [err |-> FALSE, schema |-> ovsdb_schema_from_json(d[1].json)]
         ELSE [err |-> TRUE, schema |-> NoSchema]
    ELSE [err |-> FALSE, schema |-> NoSchema]

\* Where the replay loop of ovsdb_file_open() ends.
ReplayEnd(db, n_transactions, snapshot_size, pos, replay_err) ==
    [db |-> db, n_transactions |-> n_transactions,
     snapshot_size |-> snapshot_size, pos |-> pos,
     replay_err |-> replay_err]

RECURSIVE ReplayLoop(_, _, _, _, _, _)

\* A faulty loop: a record that the engine refuses is skipped and the
\* replay goes on with the next one.
ReplayCommitted_skip(d, pos, db, n, snapshot_size, converting, c) ==
    ReplayLoop(d, pos + 1, c.db, n,
               IF n = 1 THEN Offset(d, pos + 1) ELSE snapshot_size,
               converting)

\* The loop after ovsdb_txn_commit() gave c; n counts this record.
ReplayCommitted(d, pos, db, n, snapshot_size, converting, c) ==
    IF c.err
    THEN ReplayEnd(db, n, snapshot_size, pos, TRUE)      \* ovsdb_log_unread()
    ELSE ReplayLoop(d, pos + 1, c.db, n,
                    IF n = 1 THEN Offset(d, pos + 1) ELSE snapshot_size,
                    converting)

\* A faulty loop: a record that cannot be decoded is not unread, so the
\* log stays positioned after it.
ReplayDecoded_nounread(d, pos, db, n_transactions, snapshot_size, converting, txn) ==
    IF txn.err
    THEN ReplayEnd([db EXCEPT !.tables = txn.tables], n_transactions,
                   snapshot_size, pos + 1, TRUE)
    ELSE ReplayCommitted(d, pos, db, n_transactions + 1, snapshot_size,
                         converting, ovsdb_txn_commit(db, txn.tables))

\* The loop after ovsdb_file_txn_from_json() gave txn.
ReplayDecoded(d, pos, db, n_transactions, snapshot_size, converting, txn) ==
    IF txn.err
    THEN \* ovsdb_log_unread(); the tables are as the decoder left them.
         ReplayEnd([db EXCEPT !.tables = txn.tables], n_transactions,
                   snapshot_size, pos, TRUE)
    ELSE ReplayCommitted(d, pos, db, n_transactions + 1, snapshot_size,
                         converting, ovsdb_txn_commit(db, txn.tables))

\* The replay loop of ovsdb_file_open(), from position pos on.
ReplayLoop(d, pos, db, n_transactions, snapshot_size, converting) ==
    IF ovsdb_log_read(d, pos) = "eof"
    THEN ReplayEnd(db, n_transactions, snapshot_size, pos, FALSE)
    ELSE IF ovsdb_log_read(d, pos) = "error"
    THEN ReplayEnd(db, n_transactions, snapshot_size, pos, TRUE)
    ELSE ReplayDecoded(d, pos, db, n_transactions, snapshot_size, converting,
                       ovsdb_file_txn_from_json(db, d[pos + 1].json,
                                                converting))

\* A faulty end of ovsdb_file_open(): an error met by the replay is
\* returned to the caller.
OpenOk_strict(r) ==
    IF r.replay_err
    THEN [err |-> TRUE]
    ELSE [err |-> FALSE, db |-> r.db, n_transactions |-> r.n_transactions,
          snapshot_size |-> r.snapshot_size, pos |-> r.pos,
          replay_err |-> r.replay_err]

\* What ovsdb_file_open() returns when the replay loop ended as r.
OpenOk(r) ==
    [err |-> FALSE, db |-> r.db, n_transactions |-> r.n_transactions,
     snapshot_size |-> r.snapshot_size, pos |-> r.pos,
     replay_err |-> r.replay_err]

\* ovsdb_file_open() after ovsdb_file_open_log() gave lg.
OpenWithLog(d, alt, lg) ==
    IF lg.err
    THEN [err |-> TRUE]
    ELSE OpenOk(ReplayLoop(d, 1,
                           ovsdb_create(IF alt = NoSchema THEN lg.schema
                                        ELSE alt),
                           0, 0, alt # NoSchema))

\* ovsdb_file_open() on file contents d with alternate schema alt
\* (NoSchema for none): an error, or the database, the counters for
\* ovsdb_file_create() and the position the log is left at.
ovsdb_file_open(d, alt) ==
    OpenWithLog(d, alt, ovsdb_file_open_log(d, alt = NoSchema))

\* ovsdb_file_create(): the struct ovsdb_file of a file opened at wall
\* clock time wall.
ovsdb_file_create(n_transactions, snapshot_size, wall) ==
    [last_compact |-> wall,
     next_compact |-> wall + COMPACT_MIN_MSEC,
     snapshot_size |-> snapshot_size,
     n_transactions |-> n_transactions]

(***************************************************************************)
(* The snapshot writer and ovsdb_file_compact().                           *)
(***************************************************************************)
\* Some sequence of the elements of a set (the order of a hash table).
RECURSIVE SeqOf(_)
SeqOf(set) ==
    IF set = {} THEN <<>>
    ELSE LET x == NextKey(set) IN <<x>> \o SeqOf(set \ {x})

RECURSIVE Concat(_)
Concat(seqs) == IF seqs = <<>> THEN <<>> ELSE Head(seqs) \o Concat(Tail(seqs))

\* A faulty snapshot loop: each row is handed to the encoder as a
\* modification of itself.
TableInserts_modify(db, t) ==
    LET us == SeqOf(DOMAIN db.tables[t])
    IN  [i \in 1..Len(us) |->
            [table |-> t, uuid |-> us[i],
             old |-> SomeRow(db.tables[t][us[i]]),
             new |-> SomeRow(db.tables[t][us[i]]), changed |-> {}]]

\* The rows of table t as changes with no old row and no bitmap.
TableInserts(db, t) ==
    LET us == SeqOf(DOMAIN db.tables[t])
    IN  [i \in 1..Len(us) |->
            [table |-> t, uuid |-> us[i], old |-> NoRow,
             new |-> SomeRow(db.tables[t][us[i]]), changed |-> {}]]

\* The loops of ovsdb_file_save_copy__(): every row of every table, table
\* by table.
SnapshotChanges(db) ==
    LET ts == SeqOf(DOMAIN db.tables)
    IN  Concat([i \in 1..Len(ts) |-> TableInserts(db, ts[i])])

\* The two records ovsdb_file_save_copy__() writes: the schema and one
\* delta holding every row.
SnapshotJson(db, comment, wall) ==
    TxnRecordJson(EncodeChanges(ovsdb_file_txn_init, db.schema,
                                SnapshotChanges(db)).json,
                  comment, wall)

ovsdb_file_save_copy__(db, comment, wall, schema_len, snap_len) ==
    << Rec(ovsdb_schema_to_json(db.schema), schema_len),
       Rec(SnapshotJson(db, comment, wall), snap_len) >>

\* The steps of ovsdb_file_save_copy() that can fail, in order: the
\* create-exclusive open for a reason other than an existing file, the
\* write of the schema, the write and the fsync of the snapshot, and the
\* last ovsdb_log_commit(); "none" is a call in which none does.
CopyFailures == {"none", "open", "write_schema", "write_snapshot", "fsync",
                 "commit"}

\* The destination as a failed call leaves it when it had created it.
NoFileAt(f) == [f EXCEPT !.exists = FALSE]

\* A faulty ovsdb_file_save_copy(): the destination is unlinked on every error, that of the open included.
ovsdb_file_save_copy_unlink(f, d, synced, db, comment, wall, fail, schema_len, snap_len) ==
    IF f.exists \/ fail # "none"
    THEN [err |-> TRUE, fs |-> NoFileAt(f), disk |-> <<>>, synced |-> 0]
    ELSE [err |-> FALSE,
          fs |-> [f EXCEPT !.exists = TRUE],
          disk |-> ovsdb_file_save_copy__(db, comment, wall, schema_len,
                                          snap_len),
          synced |-> 2]

\* ovsdb_file_save_copy() of database db to the destination f holding
\* the records d: ovsdb_log_open() with OVSDB_LOG_CREATE_EXCL fails if
\* the file exists, and then nothing else is done; otherwise the schema
\* and the snapshot are written, the snapshot durably, the log is
\* committed once more, the file is unlinked if any of it failed, and the
\* log is closed.
ovsdb_file_save_copy(f, d, synced, db, comment, wall, fail, schema_len, snap_len) ==
    IF f.exists \/ fail = "open"
    THEN [err |-> TRUE, fs |-> f, disk |-> d, synced |-> synced]
    ELSE IF fail # "none"
    THEN [err |-> TRUE, fs |-> NoFileAt(f), disk |-> <<>>, synced |-> 0]
    ELSE [err |-> FALSE,
          fs |-> [f EXCEPT !.exists = TRUE],
          disk |-> ovsdb_file_save_copy__(db, comment, wall, schema_len,
                                          snap_len),
          synced |-> 2]

\* The steps of ovsdb_file_compact() that can fail, in order; "none" is a
\* compaction in which none does.
CompactFailures == {"none", "replace_start", "write_schema", "write_snapshot",
                    "fsync", "replace_commit"}

\* new_log when ovsdb_file_compact() returns, by the step that failed:
\* "open" is a replacement log that ovsdb_log_replace_start() created and
\* that is still open and pending, "none" is no such log.  A failed
\* ovsdb_log_replace_start() creates none; ovsdb_log_replace_commit() is
\* handed new_log and it is the log's from then on; a failure in
\* ovsdb_file_save_copy__() goes to the exit label, where new_log is
\* neither closed nor given back.
NewLogAfter(fail) ==
    IF fail \in {"write_schema", "write_snapshot", "fsync"}
    THEN "open"
    ELSE "none"

\* A faulty ovsdb_file_compact(): the counters are reset whether or not
\* the compaction failed.
ovsdb_file_compact_unguarded(file, db, d, pos, synced, wall, fail, schema_len, snap_len) ==
    IF fail # "none"
    THEN [err |-> TRUE, disk |-> d, pos |-> pos, synced |-> synced,
          file |-> [file EXCEPT !.last_compact = wall,
                                !.next_compact = wall + COMPACT_MIN_MSEC,
                                !.n_transactions = 1]]
    ELSE [err |-> FALSE,
          disk |-> ovsdb_file_save_copy__(db, "compacting database online",
                                          wall, schema_len, snap_len),
          pos |-> 2, synced |-> 2,
          file |-> [file EXCEPT !.last_compact = wall,
                                !.next_compact = wall + COMPACT_MIN_MSEC,
                                !.n_transactions = 1]]

\* A faulty ovsdb_file_compact(): the snapshot is written after the
\* records of the old log instead of replacing them.
ovsdb_file_compact_append(file, db, d, pos, synced, wall, fail, schema_len, snap_len) ==
    IF fail # "none"
    THEN [err |-> TRUE, disk |-> d, pos |-> pos, synced |-> synced,
          file |-> file]
    ELSE [err |-> FALSE,
          disk |-> Append(SubSeq(d, 1, pos),
                          Rec(SnapshotJson(db, "compacting database online",
                                           wall), snap_len)),
          pos |-> pos + 1, synced |-> pos + 1,
          file |-> [file EXCEPT !.last_compact = wall,
                                !.next_compact = wall + COMPACT_MIN_MSEC,
                                !.n_transactions = 1]]

\* A faulty ovsdb_file_compact(): success moves last_compact and leaves
\* next_compact where it was.
ovsdb_file_compact_keepnext(file, db, d, pos, synced, wall, fail, schema_len, snap_len) ==
    IF fail # "none"
    THEN [err |-> TRUE, disk |-> d, pos |-> pos, synced |-> synced,
          file |-> file]
    ELSE [err |-> FALSE,
          disk |-> ovsdb_file_save_copy__(db, "compacting database online",
                                          wall, schema_len, snap_len),
          pos |-> 2, synced |-> 2,
          file |-> [file EXCEPT !.last_compact = wall,
                                !.n_transactions = 1]]

\* ovsdb_file_compact(): [err, disk, pos, synced, file].  On an error the
\* log is as it was; on success the new log has replaced it and the
\* handle is positioned at its end.
ovsdb_file_compact(file, db, d, pos, synced, wall, fail, schema_len, snap_len) ==
    IF fail # "none"
    THEN [err |-> TRUE, disk |-> d, pos |-> pos, synced |-> synced,
          file |-> file]
    ELSE [err |-> FALSE,
          disk |-> ovsdb_file_save_copy__(db, "compacting database online",
                                          wall, schema_len, snap_len),
          pos |-> 2, synced |-> 2,
          file |-> [file EXCEPT !.last_compact = wall,
                                !.next_compact = wall + COMPACT_MIN_MSEC,
                                !.n_transactions = 1]]

(***************************************************************************)
(* The transaction engine, as far as the file layer sees it.               *)
(***************************************************************************)
\* The rows the modelled clients create: one in table T, one in table S.
EngineUuids == [T |-> {"u1"}, S |-> {"u3"}]

EngineKeys(schema) ==
    {<<t, u>> : t \in DOMAIN schema, u \in Uuids} \cap
    {k \in (DOMAIN EngineUuids) \X Uuids : k[2] \in EngineUuids[k[1]]}

\* Every content a row u of table t can have.
RowValues(schema, t, u) ==
    {[c \in schema[t].cols |-> IF c = OVSDB_COL_UUID THEN u ELSE g[c]] :
        g \in [schema[t].cols \ {OVSDB_COL_UUID} -> Values]}

\* The changes a transaction can make to row u of table t: an insert if
\* the row does not exist, else a delete or a modification of at least one
\* column, with changed the set of columns that differ.
RowChanges(db, t, u) ==
    LET row == ovsdb_table_get_row(db.tables, t, u)
    IN  IF ~row.present
        THEN {[table |-> t, uuid |-> u, old |-> NoRow, new |-> SomeRow(f),
               changed |-> {}] : f \in RowValues(db.schema, t, u)}
        ELSE {[table |-> t, uuid |-> u, old |-> row, new |-> NoRow,
               changed |-> {}]}
             \cup
             {[table |-> t, uuid |-> u, old |-> row, new |-> SomeRow(f),
               changed |-> {c \in DOMAIN f : f[c] # row.fields[c]}] :
                 f \in RowValues(db.schema, t, u) \ {row.fields}}

\* ovsdb_txn_for_each_change(): the changes of a transaction, table by
\* table.  chs maps each changed key <<t, u>> to its change.
ChangeSeq(schema, chs) ==
    LET ts == SeqOf(DOMAIN schema)
        ofTable(t) == LET us == SeqOf({k[2] : k \in {x \in DOMAIN chs : x[1] = t}})
                      IN  [i \in 1..Len(us) |-> chs[<<t, us[i]>>]]
    IN  Concat([i \in 1..Len(ts) |-> ofTable(ts[i])])

\* The tables with a sequence of changes applied.
RECURSIVE ApplyChanges(_, _)
ApplyChanges(tables, changes) ==
    IF changes = <<>>
    THEN tables
    ELSE LET ch == Head(changes)
         IN  ApplyChanges(IF ch.new.present
                          THEN PutRow(tables, ch.table, ch.uuid, ch.new.fields)
                          ELSE DelRow(tables, ch.table, ch.uuid),
                          Tail(changes))

(***************************************************************************)
(* ovsdb_file_commit().                                                    *)
(***************************************************************************)
Min(a, b) == IF a <= b THEN a ELSE b

\* The outcomes of the I/O of one commit: all of it succeeds, the write of
\* the record fails, or the fsync of a durable commit fails.
IoOutcomes == {"ok", "write_error", "fsync_error"}

\* A faulty ratio test: the quotient is rounded up.
RatioTest_roundup(log_size, snapshot_size) ==
    (log_size + GateRatio - 1) \div GateRatio >= snapshot_size

\* The ratio test of the gate, "log_size / 4 >= file->snapshot_size": the
\* division of two off_t values truncates.
RatioTest(log_size, snapshot_size) ==
    log_size \div GateRatio >= snapshot_size

\* A faulty gate: the comparison with the snapshot's size is left out.
CompactionGate_noratio(file, now, log_size) ==
    /\ now >= file.next_compact
    /\ file.n_transactions >= GateMinTransactions
    /\ log_size >= GateMinLogSize

\* The compaction gate of ovsdb_file_commit().
CompactionGate(file, now, log_size) ==
    /\ now >= file.next_compact
    /\ file.n_transactions >= GateMinTransactions
    /\ log_size >= GateMinLogSize
    /\ RatioTest(log_size, file.snapshot_size)

\* A faulty ovsdb_file_txn_commit(): durable is ignored and
\* ovsdb_log_commit() never called.
ovsdb_file_txn_commit_nosync(rec, durable, d, pos, synced, io) ==
    IF io = "write_error"
    THEN [err |-> TRUE, disk |-> d, pos |-> pos, synced |-> synced]
    ELSE [err |-> FALSE,
          disk |-> ovsdb_log_write(d, pos, rec),
          pos |-> pos + 1,
          synced |-> Min(synced, pos)]

\* A faulty ovsdb_file_txn_commit(): the record is put in front of the last
\* record of the log instead of after it.
ovsdb_file_txn_commit_front(rec, durable, d, pos, synced, io) ==
    [err |-> FALSE,
     disk |-> IF pos >= 2
              THEN SubSeq(d, 1, pos - 1) \o << rec, d[pos] >>
              ELSE ovsdb_log_write(d, pos, rec),
     pos |-> pos + 1,
     synced |-> IF durable THEN pos + 1 ELSE Min(synced, pos)]

\* ovsdb_file_txn_commit() writing record rec: [err, disk, pos, synced].
ovsdb_file_txn_commit(rec, durable, d, pos, synced, io) ==
    IF io = "write_error"
    THEN [err |-> TRUE, disk |-> d, pos |-> pos, synced |-> synced]
    ELSE [err |-> durable /\ io = "fsync_error",
          disk |-> ovsdb_log_write(d, pos, rec),
          pos |-> pos + 1,
          synced |-> IF durable /\ io # "fsync_error"
                     THEN pos + 1           \* ovsdb_log_commit()
                     ELSE Min(synced, pos)]

\* A faulty end of ovsdb_file_commit(): the error of the compaction is
\* returned as the error of the commit.
CommitCompacted_propagate(in, c) ==
    [disk |-> c.disk, pos |-> c.pos, synced |-> c.synced, file |-> c.file,
     ret |-> IF c.err THEN "error" ELSE "ok",
     wrote |-> TRUE, gate |-> TRUE, cerr |-> c.err]

\* The end of ovsdb_file_commit(): c is what ovsdb_file_compact() gave.
\* A failed compaction moves next_compact and is not an error of the
\* commit.
CommitCompacted(in, c) ==
    [disk |-> c.disk, pos |-> c.pos, synced |-> c.synced,
     file |-> IF c.err
              THEN [c.file EXCEPT !.next_compact =
                                      in.now + COMPACT_RETRY_MSEC]
              ELSE c.file,
     ret |-> "ok", wrote |-> TRUE, gate |-> TRUE, cerr |-> c.err]

\* A faulty ovsdb_file_commit(): the transaction is counted although
\* ovsdb_file_txn_commit() failed.
CommitWritten_count(file, db, in, w) ==
    IF w.err
    THEN [disk |-> w.disk, pos |-> w.pos, synced |-> w.synced,
          file |-> [file EXCEPT !.n_transactions = @ + 1], ret |-> "error",
          wrote |-> (in.io # "write_error"),
          gate |-> FALSE, cerr |-> FALSE]
    ELSE IF CompactionGate([file EXCEPT !.n_transactions = @ + 1], in.now,
                           Offset(w.disk, w.pos))
    THEN CommitCompacted(in,
             ovsdb_file_compact([file EXCEPT !.n_transactions = @ + 1], db,
                                w.disk, w.pos, w.synced, in.wall, in.cfail,
                                w.disk[1].len, in.snap_len))
    ELSE [disk |-> w.disk, pos |-> w.pos, synced |-> w.synced,
          file |-> [file EXCEPT !.n_transactions = @ + 1],
          ret |-> "ok", wrote |-> TRUE, gate |-> FALSE, cerr |-> FALSE]

\* ovsdb_file_commit() after ovsdb_file_txn_commit() gave w.
CommitWritten(file, db, in, w) ==
    IF w.err
    THEN [disk |-> w.disk, pos |-> w.pos, synced |-> w.synced,
          file |-> file, ret |-> "error",
          wrote |-> (in.io # "write_error"),
          gate |-> FALSE, cerr |-> FALSE]
    ELSE IF CompactionGate([file EXCEPT !.n_transactions = @ + 1], in.now,
                           Offset(w.disk, w.pos))
    THEN CommitCompacted(in,
             ovsdb_file_compact([file EXCEPT !.n_transactions = @ + 1], db,
                                w.disk, w.pos, w.synced, in.wall, in.cfail,
                                w.disk[1].len, in.snap_len))
    ELSE [disk |-> w.disk, pos |-> w.pos, synced |-> w.synced,
          file |-> [file EXCEPT !.n_transactions = @ + 1],
          ret |-> "ok", wrote |-> TRUE, gate |-> FALSE, cerr |-> FALSE]

\* A faulty ovsdb_file_commit(): a transaction that encodes to nothing is
\* written like any other, as a record without table entries.
CommitEncoded_always(file, db, d, pos, synced, in, ftxn) ==
    CommitWritten(file, db, in,
        ovsdb_file_txn_commit(
            Rec(TxnRecordJson(ftxn.json, in.comment, in.wall), in.len),
            in.durable, d, pos, synced, in.io))

\* ovsdb_file_commit() after the changes were encoded as ftxn.
CommitEncoded(file, db, d, pos, synced, in, ftxn) ==
    IF ftxn.json = NoJson
    THEN \* Nothing to commit.
         [disk |-> d, pos |-> pos, synced |-> synced, file |-> file,
          ret |-> "ok", wrote |-> FALSE, gate |-> FALSE, cerr |-> FALSE]
    ELSE CommitWritten(file, db, in,
             ovsdb_file_txn_commit(
                 Rec(TxnRecordJson(ftxn.json, in.comment, in.wall), in.len),
                 in.durable, d, pos, synced, in.io))

\* ovsdb_file_commit() of a transaction whose changes are "changes", on a
\* database db that shows the transaction's changes.  in gives the inputs
\* from outside: comment, durable, the clocks now (time_msec) and wall
\* (time_wall_msec), the byte length len of the record, the I/O outcome io,
\* and for a compaction the step that fails and the snapshot's length.
\* The result is [ret, wrote, gate, cerr, disk, pos, synced, file]: wrote
\* says that a record was written, gate that a compaction was attempted,
\* cerr that the compaction failed.
ovsdb_file_commit(file, db, d, pos, synced, changes, in) ==
    CommitEncoded(file, db, d, pos, synced, in,
                  EncodeChanges(ovsdb_file_txn_init, db.schema, changes))

(***************************************************************************)
(* Bounds of the model.                                                    *)
(***************************************************************************)
\* The most records the log holds when a commit is accepted.
MaxLog == 3

\* The most rows one transaction changes.
MaxTxnRows == 2

\* The byte length of a record in the small logs.
RecLen == 2

(***************************************************************************)
(* The state.                                                              *)
(*   disk      the records of the database file                           *)
(*   synced    how many of them, from the start, are on stable storage    *)
(*   log       the log handle: open, position, read_only                  *)
(*   db        the in-memory database (NoDb while closed)                 *)
(*   alt       the alternate schema of the open (NoSchema for none)       *)
(*   file      struct ovsdb_file (NoFile while closed)                    *)
(*   now       time_msec(), the monotonic clock                           *)
(*   wall_off  time_wall_msec() - time_msec()                             *)
(*   last      what the last operation was, its arguments (durable, the   *)
(*             record's length len, the alternate schema alt, the outcome *)
(*             io of a commit's I/O), how it                              *)
(*             ended, and for a compaction whether the operation before   *)
(*             it was a successful compaction too (again), and for a      *)
(*             commit how many records the file held behind the log's     *)
(*             position when it began (behind)                            *)
(*             and whether the compaction its gate called left the        *)
(*             replacement log open (new_log)                             *)
(*   since     the persistent contents the database has had since the     *)
(*             last durable commit, compaction or restart                 *)
(*   fs        what the file system holds for the database's path besides *)
(*             the records: whether the file exists, and which process    *)
(*             holds its lock                                             *)
(*   tools     the ovsdb-tool processes working on the path: for each,    *)
(*             its command and what it holds open                         *)
(*   call      the locals of the one function that is followed step by    *)
(*             step: the encoder state of ovsdb_file_commit() while the    *)
(*             engine hands it the changes, or the name map of show-log   *)
(*             while it goes through the records                          *)
(***************************************************************************)
VARIABLES disk, synced, log, db, alt, file, now, wall_off, last, since,
          fs, tools, call

vars == <<disk, synced, log, db, alt, file, now, wall_off, last, since,
          fs, tools, call>>

\* No function is being followed.
NoCall == [fn |-> "none"]

\* The ovsdb-tool processes.
Procs == {"p1", "p2"}

\* No process holds the lock.
NoHolder == "none"

\* The file exists and is not locked.
PlainFile == [exists |-> TRUE, lock |-> NoHolder]

\* A process that has not started a command.
IdleTool == [st |-> "idle"]

NoTools == [p \in Procs |-> IdleTool]

time_msec == now

time_wall_msec == now + wall_off

NoDb == [schema |-> NoSchema, tables |-> EmptyMap]

NoFile == [last_compact |-> 0, next_compact |-> 0, snapshot_size |-> 0,
           n_transactions |-> 0]

ClosedLog == [open |-> FALSE, pos |-> 0, read_only |-> FALSE]

Last(op, ret) ==
    [op |-> op, ret |-> ret, wrote |-> FALSE, durable |-> FALSE, len |-> 0,
     gate |-> FALSE, cerr |-> FALSE, replay_err |-> FALSE, alt |-> NoSchema,
     again |-> FALSE, behind |-> 0, io |-> "ok", new_log |-> "none"]

\* The tables of db with every non-persistent column at its default.
Persist(d) ==
    [t \in DOMAIN d.tables |->
        [u \in DOMAIN d.tables[t] |->
            [c \in DOMAIN d.tables[t][u] |->
                IF c \in d.schema[t].eph THEN DefaultDatum
                ELSE d.tables[t][u][c]]]]

\* What a plain open of file contents d loads, as a set: empty if the
\* open fails.
LoadedSet(r) == IF r.err THEN {} ELSE {Persist(r.db)}

DiskDb(d) == LoadedSet(ovsdb_file_open(d, NoSchema))

\* A record cut short after b bytes.
Torn(rec, b) == [rec EXCEPT !.ok = FALSE, !.len = b]

\* The number of whole records of d within its first cut bytes.
RecordsWithin(d, cut) ==
    CHOOSE i \in 0..Len(d) :
        /\ Offset(d, i) <= cut
        /\ (i < Len(d) => Offset(d, i + 1) > cut)

\* The first k records of d and, when the cut falls inside the next one,
\* what is left of that record.
CutAfter(d, cut, k) ==
    IF k = Len(d) \/ Offset(d, k) = cut
    THEN SubSeq(d, 1, k)
    ELSE Append(SubSeq(d, 1, k), Torn(d[k + 1], cut - Offset(d, k)))

\* The file cut after byte "cut".
TruncateAt(d, cut) == CutAfter(d, cut, RecordsWithin(d, cut))

\* What a power failure can leave of the file: the synced records, any
\* number of the following ones, and possibly a part of the next.
CrashOutcomes(d, s) ==
    {TruncateAt(d, cut) : cut \in Offset(d, s)..Offset(d, Len(d))}

(***************************************************************************)
(* The operations.                                                         *)
(***************************************************************************)
\* The caller of ovsdb_file_open() with its result r.
Opened(a, ro, r) ==
    IF r.err
    THEN /\ UNCHANGED <<log, db, alt, file>>
         /\ last' = [Last("open", "error") EXCEPT !.alt = a]
    ELSE /\ log' = [open |-> TRUE, pos |-> r.pos, read_only |-> ro]
         /\ db' = r.db
         /\ alt' = a
         /\ file' = ovsdb_file_create(r.n_transactions, r.snapshot_size,
                                      time_wall_msec)
         /\ last' = [Last("open", "ok") EXCEPT !.replay_err = r.replay_err,
                                               !.alt = a]

\* ovsdb_file_open() with alternate schema a (NoSchema: none).
Open(a, ro) ==
    /\ ~log.open
    /\ Opened(a, ro, ovsdb_file_open(disk, a))
    /\ UNCHANGED <<disk, synced, now, wall_off, since, fs, tools, call>>

\* The caller of ovsdb_file_commit() with its result r: db1 is the
\* database with the transaction's changes, kept if the commit succeeded.
Committed(db1, in, r) ==
    /\ disk' = r.disk
    /\ synced' = r.synced
    /\ log' = [log EXCEPT !.pos = r.pos]
    /\ file' = r.file
    /\ db' = IF r.ret = "ok" THEN db1 ELSE db
    /\ last' = [Last("commit", r.ret) EXCEPT !.wrote = r.wrote,
                   !.durable = in.durable, !.len = in.len,
                   !.gate = r.gate, !.cerr = r.cerr,
                   !.behind = Len(disk) - log.pos, !.io = in.io,
                   !.new_log = IF r.gate THEN NewLogAfter(in.cfail)
                               ELSE "none"]
    /\ since' = IF r.ret = "ok" /\ in.durable /\ r.wrote
                THEN {Persist(db1)}
                ELSE since \cup {Persist(db1)}

CommitChanges(changes, in, db1) ==
    Committed(db1, in,
              ovsdb_file_commit(file, db1, disk, log.pos, synced, changes, in))

\* ovsdb_txn_commit() of a client's transaction on a database with a file:
\* ovsdb_file_commit() sees the tables with the changes made; an error
\* aborts the transaction.
Commit(changes, in) ==
    /\ log.open /\ ~log.read_only
    /\ CommitChanges(changes, in,
                     [db EXCEPT !.tables = ApplyChanges(db.tables, changes)])
    /\ UNCHANGED <<alt, now, wall_off, fs, tools, call>>

\* The transactions a client can make: changes to at most MaxTxnRows rows,
\* as the engine hands them to the callback.
TxnChanges ==
    {ChangeSeq(db.schema, chs) :
        chs \in UNION {{f \in [K -> UNION {RowChanges(db, k[1], k[2]) : k \in K}] :
                          \A k \in K : f[k] \in RowChanges(db, k[1], k[2])} :
                       K \in {K \in SUBSET EngineKeys(db.schema) :
                                 Cardinality(K) \in 1..MaxTxnRows}}}

\* The caller of ovsdb_file_compact() with its result r.
Compacted(r) ==
    /\ disk' = r.disk
    /\ synced' = r.synced
    /\ log' = [log EXCEPT !.pos = r.pos]
    /\ file' = r.file
    /\ last' = [Last("compact", IF r.err THEN "error" ELSE "ok")
                   EXCEPT !.gate = TRUE, !.cerr = r.err,
                          !.again = (last.op = "compact" /\ last.ret = "ok")]
    /\ since' = IF r.err THEN since ELSE {Persist(db)}

\* A direct call of ovsdb_file_compact().
Compact(fail, snap_len) ==
    /\ log.open
    /\ Compacted(ovsdb_file_compact(file, db, disk, log.pos, synced,
                                    time_wall_msec, fail, disk[1].len,
                                    snap_len))
    /\ UNCHANGED <<db, alt, now, wall_off, fs, tools, call>>

\* ovsdb_destroy() / ovsdb_file_destroy(): the log is closed.
Close ==
    /\ log.open
    /\ log' = ClosedLog
    /\ db' = NoDb
    /\ alt' = NoSchema
    /\ file' = NoFile
    /\ last' = Last("close", "ok")
    /\ UNCHANGED <<disk, synced, now, wall_off, since, fs, tools, call>>

\* A power failure: the process is gone and the file holds what had
\* reached stable storage, and possibly more.
Crash ==
    /\ \E d \in CrashOutcomes(disk, synced) :
          /\ disk' = d
          /\ synced' = Len(d)
          /\ since' = DiskDb(d)
    /\ log' = ClosedLog
    /\ db' = NoDb
    /\ alt' = NoSchema
    /\ file' = NoFile
    /\ last' = Last("crash", "ok")
    /\ UNCHANGED <<now, wall_off, fs, tools, call>>

\* The closed file loses a suffix of its bytes past record 0.
Truncate ==
    /\ ~log.open
    /\ Len(disk) >= 1
    /\ \E cut \in Offset(disk, 1)..(Offset(disk, Len(disk)) - 1) :
          /\ disk' = TruncateAt(disk, cut)
          /\ synced' = Len(disk')
          /\ since' = DiskDb(disk')
    /\ last' = Last("truncate", "ok")
    /\ UNCHANGED <<log, db, alt, file, now, wall_off, fs, tools, call>>

(***************************************************************************)
(* The life of one database file: created by "ovsdb-tool create", then     *)
(* opened read/write, committed to, compacted, closed, hit by power        *)
(* failures and truncations, and opened again.  All I/O of the commits     *)
(* succeeds.                                                               *)
(***************************************************************************)
\* do_create(): a log holding the schema, made durable.
do_create(schema) == << Rec(ovsdb_schema_to_json(schema), RecLen) >>

Init ==
    /\ disk = do_create(FullSchema)
    /\ synced = 1
    /\ log = ClosedLog
    /\ db = NoDb
    /\ alt = NoSchema
    /\ file = NoFile
    /\ now = 0
    /\ wall_off = 0
    /\ last = Last("create", "ok")
    /\ since = DiskDb(disk)
    /\ fs = PlainFile
    /\ tools = NoTools
    /\ call = NoCall

CommitInput(durable, io, cfail, len, snap_len) ==
    [comment |-> "", durable |-> durable, now |-> time_msec,
     wall |-> time_wall_msec, len |-> len, io |-> io, cfail |-> cfail,
     snap_len |-> snap_len]

Next ==
    \/ Open(NoSchema, FALSE)
    \/ \E changes \in TxnChanges, durable \in BOOLEAN :
          /\ log.pos < MaxLog
          /\ Commit(changes, CommitInput(durable, "ok", "none", RecLen, RecLen))
    \/ \E fail \in CompactFailures : Compact(fail, RecLen)
    \/ Close
    \/ Crash
    \/ Truncate

Spec == Init /\ [][Next]_vars

(***************************************************************************)
(* The same file with I/O that can fail (specification SpecIo): the write  *)
(* of a commit's record or the fsync of a durable commit may fail.  The    *)
(* transactions change one row each.                                       *)
(***************************************************************************)
NextIo ==
    \/ Open(NoSchema, FALSE)
    \/ \E changes \in TxnChanges, durable \in BOOLEAN, io \in IoOutcomes :
          /\ log.pos < MaxLog /\ Len(changes) = 1
          /\ Commit(changes, CommitInput(durable, io, "none", RecLen, RecLen))
    \/ Close

SpecIo == Init /\ [][NextIo]_vars

(***************************************************************************)
(* A long-lived server (specification SpecGate): the file is open on a     *)
(* log of GateLogLen records whose size is close to the thresholds of the  *)
(* compaction gate; transactions are committed while time passes, and      *)
(* compactions, attempted by the gate or called directly, succeed or fail  *)
(* at any of their steps.                                                  *)
(***************************************************************************)
\* The records of the log the server starts on: the schema and
\* GateLogLen - 1 transactions.
GateLogLen == 99

\* The most records appended to the long log.
MaxGateCommits == 2

\* Record i (from 2) of the long log: row u1 of table T and row u3 of
\* table S are inserted, then the former is modified.
GateDelta(i) ==
    TxnRecordJson(
        IF i = 2
        THEN JObj([T |-> JObj([u1 |-> JObj([v |-> JInt(i % 2)])]),
                   S |-> JObj([u3 |-> JObj(EmptyMap)])])
        ELSE JObj([T |-> JObj([u1 |-> JObj([v |-> JInt(i % 2)])])]),
        "", 0)

\* The long log with snapshot_size snap (the offset after record 2) and
\* total size size0: record 3 takes up what the others leave.
GateDisk(snap, size0) ==
    [i \in 1..GateLogLen |->
        IF i = 1 THEN Rec(ovsdb_schema_to_json(FullSchema), RecLen)
        ELSE Rec(GateDelta(i),
                 IF i = 2 THEN snap - RecLen
                 ELSE IF i = 3 THEN size0 - snap - (GateLogLen - 3) * RecLen
                 ELSE RecLen)]

\* Snapshot sizes: small, a quarter of the size threshold, and one more.
GateSnapshotSizes ==
    {2 * RecLen, GateMinLogSize \div GateRatio,
     GateMinLogSize \div GateRatio + 1}

\* Log sizes at the start: MaxGateCommits bytes under the size threshold,
\* and one byte over it.
GateStartSizes == {GateMinLogSize - MaxGateCommits, GateMinLogSize + 1}

\* time_wall_msec() - time_msec(): the clocks agree, or the wall clock is
\* ahead, or it is behind.
WallOffsets == {0, COMPACT_RETRY_MSEC, -COMPACT_RETRY_MSEC}

\* The end of the clock's range.
MaxNow == COMPACT_MIN_MSEC + 3 * COMPACT_RETRY_MSEC

\* What ovsdb_file_open() loads from the long log: row u1 of table T as
\* the last record left it, and row u3 of table S.
GateDb ==
    [schema |-> FullSchema,
     tables |-> [T |-> [u1 |-> [_uuid |-> "u1", k |-> DefaultDatum,
                                v |-> GateLogLen % 2]],
                 S |-> [u3 |-> [_uuid |-> "u3", e |-> DefaultDatum]]]]

\* The server has opened the long log: every record was replayed, the
\* first transaction being the snapshot.
InitGate ==
    /\ \E snap \in GateSnapshotSizes, size0 \in GateStartSizes :
          /\ disk = GateDisk(snap, size0)
          /\ wall_off \in WallOffsets
          /\ file = ovsdb_file_create(GateLogLen - 1, snap, wall_off)
    /\ synced = Len(disk)
    /\ log = [open |-> TRUE, pos |-> Len(disk), read_only |-> FALSE]
    /\ db = GateDb
    /\ alt = NoSchema
    /\ now = 0
    /\ last = Last("open", "ok")
    /\ since = {Persist(db)}
    /\ fs = PlainFile
    /\ tools = NoTools
    /\ call = NoCall

\* Time passes, up to just before the next compaction is due or up to
\* the time it is due.
Tick ==
    /\ \E t \in {file.next_compact - 1, file.next_compact} :
          /\ now < t /\ t <= MaxNow
          /\ now' = t
    /\ last' = Last("tick", "ok")
    /\ UNCHANGED <<disk, synced, log, db, alt, file, wall_off, since, fs,
                   tools, call>>

\* The transactions of the server's clients: column v of row u1 of
\* table T is set to another value.
GateTxnChanges ==
    {<<ch>> : ch \in {c \in RowChanges(db, "T", "u1") :
                         c.new.present /\ c.changed = {"v"}}}

\* Their transactions that leave the persistent data alone: column e of
\* row u3 of table S, which is not persistent, is set to 1, or nothing
\* is changed.
GateQuietChanges ==
    {<<ch>> : ch \in {c \in RowChanges(db, "S", "u3") :
                         c.new.present /\ c.new.fields.e = 1}}
    \cup {<<>>}

NextGate ==
    \/ \E changes \in GateQuietChanges :
          Commit(changes, CommitInput(TRUE, "ok", "none", RecLen, RecLen))
    \/ \E changes \in GateTxnChanges, len \in {1, RecLen},
          cfail \in CompactFailures :
          /\ \/ log.pos < MaxLog
             \/ /\ GateLogLen <= log.pos
                /\ log.pos < GateLogLen + MaxGateCommits
          /\ Commit(changes, CommitInput(TRUE, "ok", cfail, len, RecLen))
    \/ \E changes \in GateTxnChanges :
          /\ \/ log.pos < MaxLog
             \/ /\ GateLogLen <= log.pos
                /\ log.pos < GateLogLen + MaxGateCommits
          /\ Commit(changes,
                    CommitInput(TRUE, "write_error", "none", RecLen, RecLen))
    \/ \E fail \in CompactFailures : Compact(fail, RecLen)
    \/ Tick

SpecGate == InitGate /\ [][NextGate]_vars

(***************************************************************************)
(* Opening any log (specification SpecReplay): the file holds the schema   *)
(* and up to MaxReplayLen records, each any of the deltas of DeltaPool,    *)
(* well formed or not, the first of them possibly damaged; it is opened    *)
(* with its own schema or with an alternate one, and closed.               *)
(***************************************************************************)
\* The most deltas in the log.
MaxReplayLen == 2

\* A delta with one table t.
Delta1(t, rows) == JObj([x \in {t} |-> rows])

\* The rows of a table's object: r1 under u1 and r2 under u2.
Rows2(r1, r2) == JObj([u1 |-> r1, u2 |-> r2])

\* The deltas a log may hold.
DeltaPool ==
    { \* well-formed inserts and modifications
      Delta1("T", JObj([u1 |-> JObj([k |-> JInt(1)])])),
      Delta1("T", JObj([u1 |-> JObj([v |-> JInt(1)])])),
      JObj([T |-> JObj([u1 |-> JObj([v |-> JInt(1)])]),
            S |-> JObj([u3 |-> JObj([e |-> JInt(1)])])]),
      \* deletes, of a row that exists or not
      Delta1("T", JObj([u1 |-> JNull])),
      Delta1("T", Rows2(JObj([k |-> JInt(1)]), JNull)),
      Delta1("T", Rows2(JNull, JObj([k |-> JInt(1)]))),
      JObj([T |-> JObj([u2 |-> JObj(EmptyMap)]),
            S |-> JObj([u3 |-> JNull])]),
      JObj([T |-> JObj([u2 |-> JNull]),
            S |-> JObj([u3 |-> JObj(EmptyMap)])]),
      \* a table or a column the schema does not have
      Delta1("X", JObj([u1 |-> JObj(EmptyMap)])),
      Delta1("T", Rows2(JObj([w |-> JInt(1)]), JObj([k |-> JInt(1)]))),
      Delta1("T", Rows2(JObj([k |-> JInt(1)]), JObj([w |-> JInt(1)]))),
      \* a value out of range, a string that is no UUID, JSON of the
      \* wrong type
      Delta1("T", Rows2(JObj([k |-> JInt(2)]), JObj([k |-> JInt(1)]))),
      Delta1("T", Rows2(JObj([k |-> JInt(1)]), JObj([k |-> JInt(2)]))),
      Delta1("T", JObj([zz |-> JObj(EmptyMap)])),
      Delta1("T", JInt(1)),
      Delta1("T", JObj([u1 |-> JInt(1)])),
      JInt(1),
      \* more rows than table S may hold
      Delta1("S", Rows2(JObj(EmptyMap), JObj(EmptyMap))),
      \* records not written by ovsdb_file_txn_commit(): "_date" that is
      \* no integer, "_comment" that is no string
      json_object_put(Delta1("T", JObj([u1 |-> JObj([k |-> JInt(1)])])),
                      "_date", JStr("x")),
      json_object_put(
          json_object_put(Delta1("T", JObj([u1 |-> JObj([k |-> JInt(1)])])),
                          "_date", JInt(0)),
          "_comment", Delta1("T", JObj([u1 |-> JNull]))),
      json_object_put(
          json_object_put(Delta1("T", JObj([u2 |-> JObj(EmptyMap)])),
                          "_date", JNull),
          "_comment", JInt(1)) }

\* The sequences of at most n elements of set.
SeqsUpTo(set, n) == UNION {[1..k -> set] : k \in 0..n}

\* The keys of a delta that ovsdb_file_txn_commit() adds.
ReservedKeys == {"_date", "_comment"}

\* The record holding delta j, as ovsdb_file_txn_commit() writes it when j
\* is an object; a delta that has "_date" or "_comment" of its own is
\* stored as it is.
DeltaRec(j) ==
    Rec(IF j.type = "object" /\ (DOMAIN j.obj) \cap ReservedKeys = {}
        THEN TxnRecordJson(j, "", 0)
        ELSE j,
        RecLen)

ReplayLogs ==
    {do_create(FullSchema) \o [i \in DOMAIN ds |-> DeltaRec(ds[i])] :
        ds \in SeqsUpTo(DeltaPool, MaxReplayLen)}

\* The log d with record i damaged: ovsdb_log_read() finds that its
\* checksum does not match.
Damaged(d, i) == [d EXCEPT ![i].ok = FALSE]

\* The logs of ReplayLogs with the first record after record 0 damaged.
DamagedLogs == {Damaged(d, 2) : d \in {x \in ReplayLogs : Len(x) >= 2}}

\* The alternate schemas given to ovsdb_file_open(): none, or one that
\* omits table S or column v of table T.
AltSchemas == {NoSchema, SchemaNoS, SchemaNoV}

InitReplay ==
    /\ disk \in ReplayLogs \cup DamagedLogs
    /\ synced = Len(disk)
    /\ log = ClosedLog
    /\ db = NoDb
    /\ alt = NoSchema
    /\ file = NoFile
    /\ now = 0
    /\ wall_off = 0
    /\ last = Last("create", "ok")
    /\ since = {}
    /\ fs = PlainFile
    /\ tools = NoTools
    /\ call = NoCall

NextReplay ==
    \/ \E a \in AltSchemas : Open(a, a # NoSchema)
    \/ Close

SpecReplay == InitReplay /\ [][NextReplay]_vars

(***************************************************************************)
(* Writing after a replay that stopped (specification SpecRecover): a log  *)
(* of at most MaxReplayLen deltas of DeltaPool, intact or with record 1    *)
(* damaged, is opened read/write, and where the replay has stopped before  *)
(* the end of the file a transaction changing one row is committed.        *)
(***************************************************************************)
RecoverLogs ==
    LET logs == {do_create(FullSchema) \o [i \in DOMAIN ds |-> DeltaRec(ds[i])] :
                    ds \in SeqsUpTo(DeltaPool, MaxReplayLen)}
    IN  logs \cup {Damaged(d, 2) : d \in {x \in logs : Len(x) >= 2}}

InitRecover ==
    /\ disk \in RecoverLogs
    /\ synced = Len(disk)
    /\ log = ClosedLog
    /\ db = NoDb
    /\ alt = NoSchema
    /\ file = NoFile
    /\ now = 0
    /\ wall_off = 0
    /\ last = Last("create", "ok")
    /\ since = {}
    /\ fs = PlainFile
    /\ tools = NoTools
    /\ call = NoCall

NextRecover ==
    \/ Open(NoSchema, FALSE)
    \/ \E changes \in TxnChanges, durable \in BOOLEAN :
          /\ log.pos < Len(disk) /\ Len(changes) = 1
          /\ Commit(changes, CommitInput(durable, "ok", "none", RecLen, RecLen))
    \/ Close

SpecRecover == InitRecover /\ [][NextRecover]_vars

(***************************************************************************)
(* Saving a copy (specification SpecCopy): ovsdb_file_save_copy() is       *)
(* called, any number of times, with a database loaded from a log of at    *)
(* most MaxReplayLen deltas of DeltaPool and a destination file_name at    *)
(* which there is no file, or a file holding anything from no record to    *)
(* such a log.  Here disk, synced and fs are the destination's, and the    *)
(* database is not attached to a file.                                     *)
(***************************************************************************)
\* The logs the database is loaded from and the destination may hold.
CopyLogs ==
    {do_create(FullSchema) \o [i \in DOMAIN ds |-> DeltaRec(ds[i])] :
        ds \in SeqsUpTo(DeltaPool, MaxReplayLen)}

InitCopy ==
    /\ db \in {ovsdb_file_open(l, NoSchema).db : l \in CopyLogs}
    /\ fs \in {PlainFile, NoFileAt(PlainFile)}
    /\ disk \in IF fs.exists THEN CopyLogs \cup {<<>>} ELSE {<<>>}
    /\ synced = Len(disk)
    /\ log = ClosedLog
    /\ alt = NoSchema
    /\ file = NoFile
    /\ now = 0
    /\ wall_off = 0
    /\ last = Last("create", "ok")
    /\ since = {}
    /\ tools = NoTools
    /\ call = NoCall

\* A call of ovsdb_file_save_copy() in which step fail fails.
SaveCopy(comment, fail) ==
    /\ LET r == ovsdb_file_save_copy(fs, disk, synced, db, comment,
                                     time_wall_msec, fail, RecLen, RecLen)
       IN  /\ fs' = r.fs
           /\ disk' = r.disk
           /\ synced' = r.synced
           /\ last' = Last("save_copy", IF r.err THEN "error" ELSE "ok")
    /\ UNCHANGED <<log, db, alt, file, now, wall_off, since, tools, call>>

NextCopy == \E fail \in CopyFailures : SaveCopy("copy", fail)

SpecCopy == InitCopy /\ [][NextCopy]_vars

(***************************************************************************)
(* The commands of ovsdb-tool (specification SpecTool): the processes of   *)
(* Procs run create, transact, query, compact and convert on one path,     *)
(* each opening the file, doing its work and exiting, in any interleaving. *)
(* The file may not exist at the start, or be empty, or start with a       *)
(* record that is damaged or is no schema.                                 *)
(***************************************************************************)
\* No destination: compact or convert in place.
NoDst == ""

\* A faulty transact(): the database is opened without locking whether or
\* not it is opened for writing.
transact_nolock(read_only) ==
    [alt |-> NoSchema, read_only |-> read_only, locking |-> FALSE]

\* transact(): the arguments it gives ovsdb_file_open().
transact(read_only) ==
    [alt |-> NoSchema, read_only |-> read_only, locking |-> ~read_only]

\* compact_or_convert(): the arguments it gives ovsdb_file_open().
compact_or_convert(dst_name, new_schema) ==
    [alt |-> new_schema, read_only |-> TRUE, locking |-> (dst_name = NoDst)]

\* The commands that open the database, and compact with a destination.
OpenCommands == {"transact", "query", "compact", "compact_to", "convert"}

\* do_transact(), do_query(), do_compact() and do_convert().
ToolArgs(cmd) ==
    CASE cmd = "transact" -> transact(FALSE)
      [] cmd = "query" -> transact(TRUE)
      [] cmd = "compact" -> compact_or_convert(NoDst, NoSchema)
      [] cmd = "compact_to" -> compact_or_convert("copy.db", NoSchema)
      [] cmd = "convert" -> compact_or_convert(NoDst, SchemaNoS)

\* ovsdb_log_open() of an existing log for reading or writing: it fails if
\* the file does not exist, or if the lock is wanted and held.
ovsdb_log_open(f, locking) ==
    [err |-> ~f.exists \/ (locking /\ f.lock # NoHolder)]

\* A process in state st of command cmd, called with arguments a.
ToolState(st, cmd, a, d, f, pos) ==
    [st |-> st, cmd |-> cmd, alt |-> a.alt, read_only |-> a.read_only,
     locking |-> a.locking, db |-> d, file |-> f, pos |-> pos]

\* check_ovsdb_error() on an error: the process is gone and holds
\* nothing.
ToolFailed(p, cmd, a) ==
    tools' = [tools EXCEPT ![p] = ToolState("failed", cmd, a, NoDb, NoFile, 0)]

\* The lock as process p leaves it when it closes its log or exits.
Unlocked(f, p) == IF f.lock = p THEN [f EXCEPT !.lock = NoHolder] ELSE f

\* The command after ovsdb_log_open() succeeded and the rest of
\* ovsdb_file_open() gave r: on an error the log is closed again.
ToolOpened(p, cmd, a, r) ==
    IF r.err
    THEN /\ ToolFailed(p, cmd, a)
         /\ UNCHANGED fs
         /\ last' = [Last("tool_open", "error") EXCEPT !.alt = a.alt]
    ELSE /\ tools' = [tools EXCEPT ![p] =
                         ToolState("open", cmd, a, r.db,
                                   ovsdb_file_create(r.n_transactions,
                                                     r.snapshot_size,
                                                     time_wall_msec),
                                   r.pos)]
         /\ fs' = IF a.locking THEN [fs EXCEPT !.lock = p] ELSE fs
         /\ last' = [Last("tool_open", "ok") EXCEPT
                        !.replay_err = r.replay_err, !.alt = a.alt]

\* The call of ovsdb_file_open() in transact() and compact_or_convert().
ToolOpenWith(p, cmd, a) ==
    IF ovsdb_log_open(fs, a.locking).err
    THEN /\ ToolFailed(p, cmd, a)
         /\ UNCHANGED fs
         /\ last' = [Last("tool_open", "error") EXCEPT !.alt = a.alt]
    ELSE ToolOpened(p, cmd, a, ovsdb_file_open(disk, a.alt))

\* Process p starts command cmd, which opens the database.
ToolOpen(p, cmd) ==
    /\ tools[p].st = "idle"
    /\ ToolOpenWith(p, cmd, ToolArgs(cmd))
    /\ UNCHANGED <<disk, synced, log, db, alt, file, now, wall_off, since, call>>

\* The transactions given to transact: none, or one that sets column k of
\* row u1 of table T to 1, inserting the row if it is not there.
ToolTxnChanges(d) ==
    {<<>>} \cup
    {<<ch>> : ch \in {c \in RowChanges(d, "T", "u1") :
                         c.new.present /\ c.new.fields.k = 1}}

\* transact() after ovsdb_file_commit() gave r; an error aborts the
\* transaction and is reported in the result that is printed.
ToolCommitted(p, db1, r) ==
    /\ disk' = r.disk
    /\ synced' = r.synced
    /\ tools' = [tools EXCEPT ![p].st = "ran",
                              ![p].db = IF r.ret = "ok" THEN db1 ELSE @,
                              ![p].file = r.file,
                              ![p].pos = r.pos]
    /\ last' = [Last("tool_run", r.ret) EXCEPT !.wrote = r.wrote,
                   !.len = RecLen, !.gate = r.gate, !.cerr = r.cerr]
    /\ UNCHANGED fs

\* ovsdb_execute() in transact(): the transaction is committed to the
\* database and through ovsdb_file_commit() to the log.
ToolTransact(p, changes, db1) ==
    ToolCommitted(p, db1,
        ovsdb_file_commit(tools[p].file, db1, disk, tools[p].pos, synced,
                          changes,
                          CommitInput(FALSE, "ok", "none", RecLen, RecLen)))

\* compact_or_convert() in place after ovsdb_file_compact() gave r: an
\* error ends the process.
ToolCompacted(p, r) ==
    /\ disk' = r.disk
    /\ synced' = r.synced
    /\ IF r.err
       THEN /\ ToolFailed(p, tools[p].cmd, tools[p])
            /\ fs' = Unlocked(fs, p)
       ELSE /\ tools' = [tools EXCEPT ![p].st = "ran", ![p].file = r.file,
                                      ![p].pos = r.pos]
            /\ UNCHANGED fs
    /\ last' = [Last("tool_run", IF r.err THEN "error" ELSE "ok")
                   EXCEPT !.gate = TRUE, !.cerr = r.err]

\* The work of the command of process p on its open database: transact
\* executes a transaction, query changes nothing, compact and convert
\* without a destination call ovsdb_file_compact(), and compact with a
\* destination writes another file.
ToolRun(p) ==
    /\ tools[p].st = "open"
    /\ CASE tools[p].cmd = "transact" ->
              /\ tools[p].pos < MaxLog
              /\ \E changes \in ToolTxnChanges(tools[p].db) :
                    ToolTransact(p, changes,
                        [tools[p].db EXCEPT
                            !.tables = ApplyChanges(@, changes)])
         [] tools[p].cmd \in {"compact", "convert"} ->
              \E fail \in CompactFailures :
                  ToolCompacted(p,
                      ovsdb_file_compact(tools[p].file, tools[p].db, disk,
                                         tools[p].pos, synced, time_wall_msec,
                                         fail, disk[1].len, RecLen))
         [] OTHER ->
              /\ tools' = [tools EXCEPT ![p].st = "ran"]
              /\ last' = Last("tool_run", "ok")
              /\ UNCHANGED <<disk, synced, fs>>
    /\ UNCHANGED <<log, db, alt, file, now, wall_off, since, call>>

\* The schemas given to create.
CreateSchemas == {FullSchema, SchemaNoS}

\* do_create(): its schema, and the mode and locking it gives
\* ovsdb_log_open().
CreateArgs(schema) ==
    [alt |-> schema, read_only |-> FALSE, locking |-> TRUE]

\* do_create() writing the log: the schema is written and made durable
\* and the log is closed.
ToolCreated(p, schema) ==
    /\ disk' = do_create(schema)
    /\ synced' = 1
    /\ fs' = [fs EXCEPT !.exists = TRUE]
    /\ tools' = [tools EXCEPT ![p] =
                    ToolState("created", "create", CreateArgs(schema),
                              NoDb, NoFile, 0)]
    /\ last' = Last("tool_create", "ok")
    /\ UNCHANGED <<log, db, alt, file, now, wall_off, since, call>>

\* A faulty do_create(): the log is created whether or not the file
\* exists.
ToolCreate_overwrite(p) ==
    /\ tools[p].st = "idle"
    /\ \E schema \in CreateSchemas : ToolCreated(p, schema)

\* do_create(): the log is created exclusively, which fails if the file
\* exists.
ToolCreate(p) ==
    /\ tools[p].st = "idle"
    /\ \E schema \in CreateSchemas :
          IF fs.exists
          THEN /\ ToolFailed(p, "create", CreateArgs(schema))
               /\ last' = Last("tool_create", "error")
               /\ UNCHANGED <<disk, synced, fs>>
               /\ UNCHANGED <<log, db, alt, file, now, wall_off, since, call>>
          ELSE ToolCreated(p, schema)

\* The end of a command: ovsdb_destroy() closes the log, which gives up
\* the lock, and the process is free for another command.
ToolExit(p) ==
    /\ tools[p].st \in {"ran", "failed", "created"}
    /\ tools' = [tools EXCEPT ![p] = IdleTool]
    /\ fs' = Unlocked(fs, p)
    /\ last' = Last("tool_exit", "ok")
    /\ UNCHANGED <<disk, synced, log, db, alt, file, now, wall_off, since, call>>

\* The files the commands find: an empty file, a file whose record 0 is
\* damaged or is not a schema, a new database, and a database with one
\* transaction.
ToolFiles ==
    { <<>>,
      Damaged(do_create(FullSchema), 1),
      << Rec(JObj(EmptyMap), RecLen),
         DeltaRec(Delta1("T", JObj([u1 |-> JObj([k |-> JInt(1)])]))) >>,
      do_create(FullSchema),
      do_create(FullSchema) \o
          << DeltaRec(JObj([T |-> JObj([u1 |-> JObj([v |-> JInt(1)])]),
                            S |-> JObj([u3 |-> JObj([e |-> JInt(1)])])])) >> }

InitTool ==
    /\ \/ fs = [exists |-> FALSE, lock |-> NoHolder] /\ disk = <<>>
       \/ fs = PlainFile /\ disk \in ToolFiles
    /\ synced = Len(disk)
    /\ log = ClosedLog
    /\ db = NoDb
    /\ alt = NoSchema
    /\ file = NoFile
    /\ now = 0
    /\ wall_off = 0
    /\ last = Last("none", "ok")
    /\ since = {}
    /\ tools = NoTools
    /\ call = NoCall

NextTool ==
    \E p \in Procs :
        \/ \E cmd \in OpenCommands : ToolOpen(p, cmd)
        \/ ToolRun(p)
        \/ ToolCreate(p)
        \/ ToolExit(p)

SpecTool == InitTool /\ [][NextTool]_vars

(***************************************************************************)
(* The encoder of ovsdb_file_commit() (specification SpecEncode): the      *)
(* engine hands the changes of one transaction to ovsdb_file_change_cb()   *)
(* one by one, and call holds the changes handed over so far and the       *)
(* struct ovsdb_file_txn they have built.  The first change is any old     *)
(* row, new row and bitmap; the later ones are changes to other rows of    *)
(* the database EncodeDb, in any order.                                    *)
(***************************************************************************)
\* The most changes of one transaction.
MaxChanges == 3

\* The rows a transaction may change.
EncodeKeys == {<<"T", "u1">>, <<"T", "u2">>, <<"S", "u3">>}

\* The database of the transaction: one row in T, one in S.
EncodeDb ==
    [schema |-> FullSchema,
     tables |-> [T |-> [u1 |-> [_uuid |-> "u1", k |-> 1, v |-> 0]],
                 S |-> [u3 |-> [_uuid |-> "u3", e |-> 0]]]]

\* Every old row, new row and bitmap of changed columns that the callback
\* can be given for row u of table t: not both rows absent.
AnyChanges(t, u) ==
    LET rows == {NoRow} \cup {SomeRow(f) : f \in RowValues(FullSchema, t, u)}
    IN  {[table |-> t, uuid |-> u, old |-> o, new |-> n, changed |-> b] :
            o \in rows, n \in rows, b \in SUBSET FullSchema[t].cols}
        \ {ch \in [table : {t}, uuid : {u}, old : {NoRow}, new : {NoRow},
                    changed : SUBSET FullSchema[t].cols] : TRUE}

\* The changes the callback can be given next.
NextChanges ==
    IF call.changes = <<>>
    THEN UNION {AnyChanges(k[1], k[2]) : k \in EncodeKeys}
    ELSE UNION {RowChanges(EncodeDb, k[1], k[2]) :
                   k \in EncodeKeys \
                       {<<call.changes[i].table, call.changes[i].uuid>> :
                           i \in DOMAIN call.changes}}

\* ovsdb_file_change_cb(): the change is added to the transaction's JSON.
ChangeCb ==
    /\ call.fn = "commit"
    /\ Len(call.changes) < MaxChanges
    /\ \E ch \in NextChanges :
          call' = [fn |-> "commit",
                   changes |-> Append(call.changes, ch),
                   ftxn |-> ovsdb_file_txn_add_row(call.ftxn, FullSchema, ch)]
    /\ UNCHANGED <<disk, synced, log, db, alt, file, now, wall_off, last,
                   since, fs, tools>>

\* ovsdb_file_commit() has called ovsdb_file_txn_init().
InitEncode ==
    /\ call = [fn |-> "commit", changes |-> <<>>, ftxn |-> ovsdb_file_txn_init]
    /\ disk = do_create(FullSchema)
    /\ synced = 1
    /\ log = ClosedLog
    /\ db = NoDb
    /\ alt = NoSchema
    /\ file = NoFile
    /\ now = 0
    /\ wall_off = 0
    /\ last = Last("none", "ok")
    /\ since = {}
    /\ fs = PlainFile
    /\ tools = NoTools

NextEncode == ChangeCb

SpecEncode == InitEncode /\ [][NextEncode]_vars

(***************************************************************************)
(* The ratio test of the gate on its own (specification SpecRatio): the    *)
(* gate of a commit is followed from its two sizes to the outcome of the   *)
(* test.                                                                   *)
(***************************************************************************)
MaxSize == 9

\* Log sizes: small ones, and the sizes from 10 MiB on at which the gate
\* comes to the ratio test.
LogSizes == (0..MaxSize) \cup {GateMinLogSize + k : k \in 0..MaxSize}

\* Snapshot sizes: small ones, and the sizes around a quarter of 10 MiB.
SnapshotSizes ==
    (0..MaxSize) \cup {GateMinLogSize \div GateRatio + k : k \in 0..MaxSize}

InitRatio ==
    /\ \E l \in LogSizes, s \in SnapshotSizes :
          call = [fn |-> "gate", log_size |-> l, snapshot_size |-> s,
                  tested |-> FALSE, ratio |-> FALSE]
    /\ disk = do_create(FullSchema)
    /\ synced = 1
    /\ log = ClosedLog
    /\ db = NoDb
    /\ alt = NoSchema
    /\ file = NoFile
    /\ now = 0
    /\ wall_off = 0
    /\ last = Last("none", "ok")
    /\ since = {}
    /\ fs = PlainFile
    /\ tools = NoTools

\* The gate evaluates its ratio test.
GateRatioTest ==
    /\ call.fn = "gate" /\ ~call.tested
    /\ call' = [call EXCEPT !.tested = TRUE,
                            !.ratio = RatioTest(call.log_size,
                                                call.snapshot_size)]
    /\ UNCHANGED <<disk, synced, log, db, alt, file, now, wall_off, last,
                   since, fs, tools>>

SpecRatio == InitRatio /\ [][GateRatioTest]_vars

(***************************************************************************)
(* ovsdb-tool show-log on a standalone log (specification SpecShow): one   *)
(* step per record read by do_show_log_standalone().                       *)
(*                                                                         *)
(* A "long long" is held as [hi, lo] with value hi * 2^16 + lo and         *)
(* 0 <= lo < 2^16, so that the values around 2^31 and their products with  *)
(* 1000 can be computed.                                                   *)
(***************************************************************************)
MaxShowLen == 3

Base == 256 * 256

LL(hi, lo) == [hi |-> hi, lo |-> lo]

\* a < b
LLLess(a, b) == a.hi < b.hi \/ (a.hi = b.hi /\ a.lo < b.lo)

\* a * 1000
LLTimes1000(a) ==
    LET p == a.lo * 1000
    IN  LL(a.hi * 1000 + p \div Base, p % Base)

INT32_MAX == LL(32767, 65535)

\* The time, in ms, that do_show_log_standalone() renders for the integer
\* "_date" t: "if (t < INT32_MAX) t *= 1000".
ShowLogTime(t) == IF LLLess(t, INT32_MAX) THEN LLTimes1000(t) ELSE t

\* json_to_string() of a string without characters to escape, and of
\* null.
json_to_string(j) ==
    IF j.type = "string" THEN "\"" \o j.str \o "\"" ELSE "null"

\* "%.8s" and xmemdup0(row_uuid, 8): the first eight characters.
Prefix8(row_uuid) == SubSeq(row_uuid, 1, Min(8, Len(row_uuid)))

\* A faulty PrintRow(): a deleted row stays in the names.
PrintRow_keep(names, table, row_uuid, columns) ==
    LET known == row_uuid \in DOMAIN names
        named == columns.type = "object" /\ "name" \in DOMAIN columns.obj
        new_name == IF named THEN json_to_string(columns.obj["name"])
                    ELSE IF known THEN names[row_uuid]
                    ELSE Prefix8(row_uuid)
        line == [table |-> table, uuid |-> row_uuid, insert |-> ~known,
                 name |-> IF known THEN names[row_uuid]
                          ELSE IF named THEN new_name
                          ELSE Prefix8(row_uuid),
                 delete |-> columns.type = "null"]
    IN  [line |-> line,
         names |->
            IF columns.type = "object"
            THEN IF ~known \/ new_name # names[row_uuid]
                 THEN [u \in DOMAIN names \cup {row_uuid} |->
                          IF u = row_uuid THEN new_name ELSE names[u]]
                 ELSE names
            ELSE IF columns.type = "null"
            THEN names
            ELSE names]

\* What print_db_changes() prints and does to the names for one row of a
\* table: [names, line].
PrintRow(names, table, row_uuid, columns) ==
    LET known == row_uuid \in DOMAIN names
        named == columns.type = "object" /\ "name" \in DOMAIN columns.obj
        new_name == IF named THEN json_to_string(columns.obj["name"])
                    ELSE IF known THEN names[row_uuid]
                    ELSE Prefix8(row_uuid)
        line == [table |-> table, uuid |-> row_uuid, insert |-> ~known,
                 name |-> IF known THEN names[row_uuid]
                          ELSE IF named THEN new_name
                          ELSE Prefix8(row_uuid),
                 delete |-> columns.type = "null"]
    IN  [line |-> line,
         names |->
            IF columns.type = "object"
            THEN IF ~known \/ new_name # names[row_uuid]
                 THEN [u \in DOMAIN names \cup {row_uuid} |->
                          IF u = row_uuid THEN new_name ELSE names[u]]
                 ELSE names
            ELSE IF columns.type = "null"
            THEN [u \in DOMAIN names \ {row_uuid} |-> names[u]]
            ELSE names]

\* The loop of print_db_changes() over the rows of one table.
RECURSIVE PrintRows(_, _, _, _, _)
PrintRows(names, lines, table, rows, todo) ==
    IF todo = {} THEN [names |-> names, lines |-> lines]
    ELSE LET u == CHOOSE x \in todo : TRUE
             r == PrintRow(names, table, u, rows[u])
         IN  PrintRows(r.names, lines \cup {r.line}, table, rows,
                       todo \ {u})

\* The table's member of the record is shown: its name does not start
\* with "_" and its value is an object.
ShownTable(tables, table) ==
    SubSeq(table, 1, 1) # "_" /\ tables[table].type = "object"

\* print_db_changes(): the loop over the members of the record.
RECURSIVE print_db_changes(_, _, _, _)
print_db_changes(tables, names, lines, todo) ==
    IF todo = {} THEN [names |-> names, lines |-> lines]
    ELSE LET t == CHOOSE x \in todo : TRUE
             r == IF ShownTable(tables, t)
                  THEN PrintRows(names, lines, t, tables[t].obj,
                                 DOMAIN tables[t].obj)
                  ELSE [names |-> names, lines |-> lines]
         IN  print_db_changes(tables, r.names, r.lines, todo \ {t})

NoTime == [shown |-> FALSE, t |-> LL(0, 0)]

\* show-log has rendered the first i records.
ShowCall(verbosity, i, names, time, lines, end) ==
    [fn |-> "show-log", verbosity |-> verbosity, i |-> i, names |-> names,
     time |-> time, lines |-> lines, end |-> end]

\* One iteration of the loop of do_show_log_standalone() on record json.
ShowJson(c, json) ==
    IF c.i = 0 \/ json.type # "object"
    THEN ShowCall(c.verbosity, c.i + 1, c.names, NoTime, {}, "no")
    ELSE LET time == IF "_date" \in DOMAIN json.obj
                        /\ json.obj["_date"].type = "integer"
                     THEN [shown |-> TRUE,
                           t |-> ShowLogTime(json.obj["_date"].int)]
                     ELSE NoTime
             r == IF c.verbosity > 0
                  THEN print_db_changes(json.obj, c.names, {},
                                        DOMAIN json.obj)
                  ELSE [names |-> c.names, lines |-> {}]
         IN  ShowCall(c.verbosity, c.i + 1, r.names, time, r.lines, "no")

\* The dates of the logs: around 0, around INT32_MAX and INT32_MIN, and a
\* time of the year 2023 in seconds and in milliseconds.
ShowDates ==
    {LL(0, 0), LL(0, 1), LL(-1, 65535),
     LL(32767, 65534), INT32_MAX, LL(32768, 0),
     LL(-32768, 1), LL(-32768, 0), LL(-32769, 65535),
     LL(25939, 61696), LL(25939941, 26624)}

ShowUuidT == "1f0e2a7c-0001"

ShowUuidS == "1f0e2a7c-0002"

\* The entries of row ShowUuidT of table T, and of row ShowUuidS of table
\* S, in a record.
ShowEntriesT ==
    {JNull, JObj([v |-> JInt(1)]), JObj([name |-> JStr("a")]),
     JObj([name |-> JStr("b"), v |-> JInt(1)])}

ShowEntriesS == {JObj(EmptyMap)}

ShowRecord(date, tables) ==
    Rec(JObj([k \in DOMAIN tables \cup {"_date", "_comment"} |->
                 IF k = "_date" THEN JInt(date)
                 ELSE IF k = "_comment" THEN JStr("c")
                 ELSE tables[k]]),
        RecLen)

\* The records with rows: of one of the tables or of both.
NameRecords ==
    {ShowRecord(LL(25939941, 26624), tables) :
        tables \in
            {[T |-> JObj([u \in {ShowUuidT} |-> e])] : e \in ShowEntriesT}
            \cup {[S |-> JObj([u \in {ShowUuidS} |-> e])] :
                     e \in ShowEntriesS}
            \cup {[T |-> JObj([u \in {ShowUuidT} |-> e]),
                   S |-> JObj([u \in {ShowUuidS} |-> f])] :
                     e \in ShowEntriesT, f \in ShowEntriesS}}

\* The logs shown: one record of any date, or up to MaxShowLen records
\* with rows.
ShowLogs ==
    {do_create(FullSchema)
        \o << ShowRecord(d, [T |-> JObj([u \in {ShowUuidT} |->
                                            JObj(EmptyMap)])]) >> :
        d \in ShowDates}
    \cup {do_create(FullSchema) \o rs :
             rs \in SeqsUpTo(NameRecords, MaxShowLen)}

InitShow ==
    /\ disk \in ShowLogs
    /\ \E verbosity \in {0, 1} :
          call = ShowCall(verbosity, 0, EmptyMap, NoTime, {}, "no")
    /\ synced = Len(disk)
    /\ log = ClosedLog
    /\ db = NoDb
    /\ alt = NoSchema
    /\ file = NoFile
    /\ now = 0
    /\ wall_off = 0
    /\ last = Last("none", "ok")
    /\ since = {}
    /\ fs = PlainFile
    /\ tools = NoTools

\* do_show_log_standalone() reads the next record and renders it, or
\* ends at the end of the log or, through check_ovsdb_error(), on a read
\* or schema error.
ShowNext ==
    /\ call.fn = "show-log" /\ call.end = "no"
    /\ LET r == ovsdb_log_read(disk, call.i)
       IN  call' =
             IF r = "eof" THEN [call EXCEPT !.end = "eof"]
             ELSE IF r = "error" THEN [call EXCEPT !.end = "error"]
             ELSE IF call.i = 0 /\ ~schema_from_json_ok(disk[1].json)
             THEN [call EXCEPT !.end = "error"]
             ELSE ShowJson(call, disk[call.i + 1].json)
    /\ UNCHANGED <<disk, synced, log, db, alt, file, now, wall_off, last,
                   since, fs, tools>>

SpecShow == InitShow /\ [][ShowNext]_vars

(***************************************************************************)
(* Properties of the life of a database file (specification Spec).         *)
(***************************************************************************)
\* Closing the file and opening the same log again with its own schema.
Reopen(d) == ovsdb_file_open(d, NoSchema)

\* The open r succeeded and loaded exactly the tables "tables".
Loads(r, tables) == ~r.err /\ r.db.tables = tables

\* Some row of the database holds a value in a non-persistent column.
HasEphemeralValue(d) ==
    \E t \in DOMAIN d.tables : \E u \in DOMAIN d.tables[t] :
        \E c \in d.schema[t].eph : d.tables[t][u][c] # DefaultDatum

\* C1 as stated: whenever the file is open, after any sequence of
\* successful commits, closing and reopening the log with the same schema
\* loads exactly the rows and column values of the in-memory database.
C1_RoundTripExact ==
    log.open => Loads(Reopen(disk), db.tables)

\* C1, amended: whenever the file is open, after any sequence of successful
\* commits, closing and reopening the log with the same schema loads the
\* same tables and rows with the same values in every persistent column;
\* the non-persistent columns come back at their default.
C1_RoundTripPersistent ==
    log.open => Loads(Reopen(disk), Persist(db))

\* A second transaction has been committed and written, and the database
\* holds a value that is not persistent.
C1_Witness ==
    /\ last.op = "commit" /\ last.ret = "ok" /\ last.wrote
    /\ log.pos = 3
    /\ HasEphemeralValue(db)
    /\ db.tables["T"] # EmptyMap

\* The reopen r of what a power failure left succeeded and loaded one of
\* the contents in "contents".
LoadsOneOf(r, contents) == ~r.err /\ Persist(r.db) \in contents

\* C2: at every point, whatever a power failure leaves of the file opens,
\* and loads contents the database has had since the last time the whole
\* log was made durable; so from the return of a successful durable commit
\* on, a crash and reopen gives a database that includes the transaction.
C2_Durability ==
    \A d \in CrashOutcomes(disk, synced) : LoadsOneOf(Reopen(d), since)

\* A durable commit has just written a record after a commit that was not
\* durable.
C2_Witness ==
    /\ last.op = "commit" /\ last.ret = "ok" /\ last.wrote /\ last.durable
    /\ synced = Len(disk) /\ Len(disk) = 3
    /\ since = {Persist(db)}

\* The records of d before its first record that is not intact.
RECURSIVE IntactPrefix(_)
IntactPrefix(d) ==
    IF d = <<>> \/ ~Head(d).ok
    THEN <<>>
    ELSE <<Head(d)>> \o IntactPrefix(Tail(d))

\* The open r succeeded, stopped after n records and loaded "tables".
LoadsUpTo(r, n, tables) == ~r.err /\ r.pos = n /\ r.db.tables = tables

\* The open r of a truncated log gives what the open of its intact
\* records gives.
SameAsIntact(r, d) ==
    LET intact == Reopen(IntactPrefix(d))
    IN  /\ ~intact.err
        /\ LoadsUpTo(r, Len(IntactPrefix(d)), intact.db.tables)

\* C3: for every log the program has made, cutting it anywhere past
\* record 0 leaves a log that opens, and the open loads the replay of
\* exactly the records that are still intact.
C3_TailTolerance ==
    \A cut \in Offset(disk, 1)..Offset(disk, Len(disk)) :
        LET cut_log == TruncateAt(disk, cut)
        IN  SameAsIntact(Reopen(cut_log), cut_log)

\* A log of three records was cut inside its last record and opened: the
\* open succeeded although the replay met an error.
C3_Witness ==
    /\ last.op = "open" /\ last.ret = "ok" /\ last.replay_err
    /\ Len(disk) = 3 /\ ~disk[3].ok /\ log.pos = 2
    /\ db.tables["T"] # EmptyMap

\* The log d is a schema record followed by one delta.
TwoRecords(d, schema) ==
    /\ Len(d) = 2
    /\ d[1].ok /\ d[1].json = ovsdb_schema_to_json(schema)
    /\ d[2].ok /\ d[2].json.type = "object"

\* C4 as stated: after a successful ovsdb_file_compact() the log holds
\* exactly the schema and one snapshot delta, and reopening it loads
\* exactly the rows of the in-memory database.
C4_CompactExact ==
    (last.op = "compact" /\ last.ret = "ok") =>
        /\ TwoRecords(disk, db.schema)
        /\ Loads(Reopen(disk), db.tables)

\* C4, amended: after a successful ovsdb_file_compact() the log holds
\* exactly the schema and one snapshot delta, and reopening it loads the
\* rows of the in-memory database with the same values in every persistent
\* column; the non-persistent columns come back at their default.
C4_CompactPersistent ==
    (last.op = "compact" /\ last.ret = "ok") =>
        /\ TwoRecords(disk, db.schema)
        /\ Loads(Reopen(disk), Persist(db))

\* A database with rows in both tables, one holding a value that is not
\* persistent, has just been compacted.
C4_Witness ==
    /\ last.op = "compact" /\ last.ret = "ok"
    /\ Len(disk) = 2
    /\ db.tables["T"] # EmptyMap /\ HasEphemeralValue(db)

\* The table entries of a delta: everything but _date and _comment.
DeltaTables(json) ==
    [t \in (DOMAIN json.obj) \ {"_date", "_comment"} |-> json.obj[t]]

\* The step is a successful ovsdb_file_compact() that follows a
\* successful ovsdb_file_compact() with nothing in between.
CompactedAgain ==
    last'.op = "compact" /\ last'.ret = "ok" /\ last'.again

\* C13: compacting a log that was just compacted, with no change to the
\* database in between, leaves again a log of exactly two records, the
\* schema and a snapshot delta, and the snapshot delta has the same table
\* entries, with the same rows and column values, as the snapshot before;
\* only _date and _comment may differ.
C13_CompactIdempotent ==
    [][CompactedAgain =>
         /\ TwoRecords(disk, db.schema)
         /\ TwoRecords(disk', db.schema)
         /\ DeltaTables(disk'[2].json) = DeltaTables(disk[2].json)]_vars

\* A database with rows in both tables has been compacted twice in a row.
C13_Witness ==
    /\ last.op = "compact" /\ last.ret = "ok" /\ last.again
    /\ Len(disk) = 2
    /\ db.tables["T"] # EmptyMap /\ db.tables["S"] # EmptyMap

\* The byte length of record index 1 of the log d, 0 if there is none.
Record1Length(d) == IF Len(d) >= 2 THEN d[2].len ELSE 0

\* C14: whenever the database file is open, after the open and after
\* every commit and compaction, snapshot_size equals the byte length of
\* record index 1 of the current log, 0 if the log has no such record.
C14_SnapshotSize ==
    log.open => file.snapshot_size = Record1Length(disk)

\* The step is a commit that appended a record to the log.
CommitAppended == last'.op = "commit" /\ last'.wrote

\* The log after the step is the log before it with one intact record
\* appended at the handle's position.
RecordAppended ==
    /\ Len(disk') = log.pos + 1
    /\ log'.pos = log.pos + 1
    /\ SubSeq(disk', 1, log.pos) = SubSeq(disk, 1, log.pos)
    /\ disk'[log'.pos].ok

\* The database d with its non-persistent columns at their default, as a
\* replay of the log holds it.
AsReplayed(d) == [d EXCEPT !.tables = Persist(d)]

\* The record rec holds the delta that takes database d0 to database d1.
CarriesDelta(rec, d0, d1) ==
    LET txn == ovsdb_file_txn_from_json(AsReplayed(d0), rec.json, FALSE)
    IN  ~txn.err /\ txn.tables = Persist(d1)

\* The open r replayed n records after record 0 and loaded "tables".
ReplaysInOrder(r, n, tables) ==
    ~r.err /\ ~r.replay_err /\ r.n_transactions = n /\ r.db.tables = tables

\* C17: records are appended to the log in the order the commits are
\* made.  Every commit that writes a record puts it right after the
\* records written before it and leaves those in place; the record holds
\* that commit's delta; its index in the log is the number of
\* transactions counted since the last snapshot; and a replay of the log
\* applies the records in index order, ending with the database as that
\* commit left it.
C17_CommitOrder ==
    /\ [][CommitAppended =>
            /\ RecordAppended
            /\ file'.n_transactions = file.n_transactions + 1
            /\ log'.pos = file'.n_transactions + 1
            /\ CarriesDelta(disk'[log'.pos], db, db')]_vars
    /\ [](last.op = "commit" /\ last.wrote =>
             ReplaysInOrder(Reopen(disk), file.n_transactions, Persist(db)))

\* Two commits in a row have written records 1 and 2, and replaying the
\* two records in the other order would not give the database.
C17_Witness ==
    /\ last.op = "commit" /\ last.ret = "ok" /\ last.wrote
    /\ Len(disk) = 3 /\ log.pos = 3 /\ file.n_transactions = 2
    /\ disk[2].ok /\ disk[3].ok
    /\ ~Loads(Reopen(<< disk[1], disk[3], disk[2] >>), Persist(db))

(***************************************************************************)
(* Properties of the compaction gate (specification SpecGate).             *)
(***************************************************************************)
\* The size of the log once the commit's record is appended.
SizeAppended == Offset(disk, log.pos) + last'.len

\* C5: in every commit that appends a record, a compaction is attempted
\* if and only if, with the transaction counted, the current time is at
\* least next_compact, n_transactions is at least 100, the log is at
\* least 10 MiB long and at least 4 times snapshot_size.
C5_GateIff ==
    [][CommitAppended =>
         (last'.gate <=>
             /\ time_msec >= file.next_compact
             /\ file.n_transactions + 1 >= 100
             /\ SizeAppended >= 10 * 1024 * 1024
             /\ SizeAppended >= 4 * file.snapshot_size)]_vars

\* A commit found all four conditions true and compacted the log.
C5_Witness ==
    /\ last.op = "commit" /\ last.wrote /\ last.gate /\ ~last.cerr
    /\ Len(disk) = 2 /\ file.n_transactions = 1

\* The step is a commit whose compaction failed.
CommitCompactionFailed ==
    last'.op = "commit" /\ last'.gate /\ last'.cerr

\* The last record of the log sets column v of row u1 of table T to the
\* value it has in the database d.
CarriesV(rec, d) ==
    /\ "T" \in DOMAIN rec.json.obj
    /\ rec.json.obj["T"] =
           JObj([u1 |-> JObj([v |-> JInt(d.tables["T"]["u1"].v)])])

\* C6: when the gate fires in a commit and ovsdb_file_compact() fails, the
\* commit returns success, the committed record is the last record of the
\* log, the transaction is counted and stays in the database, and
\* next_compact is the current time plus 60 s.
C6_CompactFailureInCommit ==
    [][CommitCompactionFailed =>
         /\ last'.ret = "ok"
         /\ RecordAppended
         /\ disk'[log'.pos].len = last'.len
         /\ CarriesV(disk'[log'.pos], db')
         /\ db' # db
         /\ file'.n_transactions = file.n_transactions + 1
         /\ file'.next_compact = time_msec + 60 * 1000]_vars

\* A commit whose compaction failed has returned success.
C6_Witness ==
    /\ last.op = "commit" /\ last.gate /\ last.cerr /\ last.ret = "ok"
    /\ Len(disk) > GateLogLen
    /\ file.next_compact = time_msec + COMPACT_RETRY_MSEC

\* C7 as stated: whenever ovsdb_file_compact() fails, called from a commit
\* or directly, the log keeps the records it had and next_compact is set
\* to the current time plus COMPACT_RETRY_MSEC.
C7_FailureSetsRetry ==
    [][last'.cerr =>
         /\ IF last'.op = "commit" THEN RecordAppended ELSE disk' = disk
         /\ file'.next_compact = time_msec + COMPACT_RETRY_MSEC]_vars

\* C7, amended: whenever ovsdb_file_compact() fails, the log keeps the
\* records it had and the error is returned to the caller; a direct call
\* leaves struct ovsdb_file, and so next_compact, as it was, and
\* ovsdb_file_commit() as the caller sets next_compact to the current
\* time plus COMPACT_RETRY_MSEC.
C7_FailureKeepsLog ==
    [][last'.cerr =>
         IF last'.op = "commit"
         THEN /\ RecordAppended
              /\ file' = [file EXCEPT
                             !.n_transactions = @ + 1,
                             !.next_compact = time_msec + COMPACT_RETRY_MSEC]
         ELSE /\ last'.op = "compact" /\ last'.ret = "error"
              /\ disk' = disk /\ log' = log /\ synced' = synced
              /\ file' = file]_vars

\* A direct call of ovsdb_file_compact() has failed and next_compact is
\* not the current time plus COMPACT_RETRY_MSEC.
C7_Witness ==
    /\ last.op = "compact" /\ last.cerr /\ last.ret = "error"
    /\ Len(disk) >= GateLogLen
    /\ file.next_compact # time_msec + COMPACT_RETRY_MSEC

\* C15: whenever a database file is open, after ovsdb_file_create(),
\* after a successful compaction and after a failed compaction inside a
\* commit has moved next_compact to the retry time, next_compact is at
\* least last_compact.
C15_NextAfterLast ==
    log.open => file.next_compact >= file.last_compact

\* With the wall clock ahead of the monotonic clock, a compaction inside
\* a commit has failed and next_compact is the retry time.
C15_Witness ==
    /\ log.open /\ wall_off > 0
    /\ last.op = "commit" /\ last.gate /\ last.cerr
    /\ file.next_compact = time_msec + COMPACT_RETRY_MSEC
    /\ file.next_compact # file.last_compact + COMPACT_MIN_MSEC

\* The step is a commit of a transaction that inserts and deletes no row
\* and changes no persistent column: its changes encode to no table
\* entry.  (A commit whose write failed leaves the database as it was
\* too, its transaction being aborted; it is no such commit.)
EmptyCommit ==
    /\ last'.op = "commit"
    /\ last'.io = "ok"
    /\ Persist(db') = Persist(db)

\* The four conditions of the compaction gate hold of the open file.
GateConditions ==
    /\ time_msec >= file.next_compact
    /\ file.n_transactions >= 100
    /\ Offset(disk, log.pos) >= 10 * 1024 * 1024
    /\ Offset(disk, log.pos) >= 4 * file.snapshot_size

\* C16: a commit whose changes encode to no table entry, because the
\* transaction has no rows or only modifies columns that are not
\* persistent, returns success, appends no record, leaves n_transactions,
\* last_compact, next_compact and snapshot_size as they were and attempts
\* no compaction, whatever the conditions of the gate.
C16_EmptyCommit ==
    [][EmptyCommit =>
         /\ last'.ret = "ok"
         /\ ~last'.wrote /\ ~last'.gate
         /\ disk' = disk /\ log' = log /\ synced' = synced
         /\ file' = file]_vars

\* A transaction that changed nothing persistent was committed while all
\* four conditions of the gate held, after a transaction had set the
\* column that is not persistent.
C16_Witness ==
    /\ last.op = "commit" /\ last.ret = "ok" /\ ~last.wrote
    /\ GateConditions
    /\ Len(disk) > GateLogLen
    /\ HasEphemeralValue(db)

\* The step is a compaction that succeeded, called directly or by the
\* gate of a commit.
CompactionSucceeded ==
    /\ last'.op \in {"commit", "compact"}
    /\ last'.gate /\ ~last'.cerr

\* The time on the monotonic clock at which last_compact was set: the
\* time of the last successful compaction, or of the open.
LastCompactTime == file.last_compact - wall_off

\* C24: a successful compaction sets last_compact to the wall-clock
\* time, next_compact to that time plus 10 minutes and n_transactions to
\* 1; and whenever the gate of a commit attempts a compaction, the
\* commit's record is at least the 99th since last_compact was set and
\* at least 10 minutes have passed since then.
C24_CompactResets ==
    [][/\ CompactionSucceeded =>
             /\ file'.last_compact = time_wall_msec
             /\ file'.next_compact = time_wall_msec + 10 * 60 * 1000
             /\ file'.n_transactions = 1
       /\ (last'.op = "commit" /\ last'.gate) =>
             /\ file.n_transactions + 1 >= 100
             /\ time_msec - LastCompactTime >= 10 * 60 * 1000]_vars

\* A compaction attempted by a commit has failed since last_compact was
\* set: next_compact is a retry time, COMPACT_RETRY_MSEC after the
\* attempt.
RetryPending == file.next_compact # file.last_compact + COMPACT_MIN_MSEC

\* The time on the monotonic clock of that failed attempt.
LastAttemptTime == file.next_compact - COMPACT_RETRY_MSEC

\* The time condition as elapsed time: at least COMPACT_MIN_MSEC since
\* the last successful compaction or the open and, after a failed
\* attempt, at least COMPACT_RETRY_MSEC since that attempt.
ElapsedTimeDue ==
    /\ time_msec - LastCompactTime >= 10 * 60 * 1000
    /\ RetryPending => time_msec - LastAttemptTime >= 60 * 1000

\* C25: a commit that appends a record when the elapsed time is due and
\* the count, size and ratio conditions hold attempts a compaction,
\* whatever the offset between the wall clock and the clock the gate
\* reads.
C25_TimeCondition ==
    [][(/\ CommitAppended
        /\ ElapsedTimeDue
        /\ file.n_transactions + 1 >= 100
        /\ SizeAppended >= 10 * 1024 * 1024
        /\ SizeAppended >= 4 * file.snapshot_size) => last'.gate]_vars

\* The step is a commit in which the write of the record failed; the
\* transactions of these commits change a persistent column, so there is
\* a record to write.
CommitWriteFailed ==
    last'.op = "commit" /\ last'.io = "write_error"

\* C33: when the write of the record fails in ovsdb_file_commit(), the
\* commit returns the error, n_transactions, last_compact, next_compact
\* and snapshot_size are as before, no compaction is attempted, and the
\* database is as it was before the transaction.
C33_WriteFailure ==
    [][CommitWriteFailed =>
         /\ last'.ret = "error"
         /\ file' = file
         /\ ~last'.gate
         /\ db' = db]_vars

\* The write failed in a commit whose record would have brought the log
\* to 100 transactions and over 10 MiB, at a time when a compaction was
\* due.
C33_Witness ==
    /\ last.op = "commit" /\ last.io = "write_error" /\ last.ret = "error"
    /\ file.n_transactions = 99
    /\ time_msec >= file.next_compact
    /\ Offset(disk, log.pos) + last.len >= 10 * 1024 * 1024
    /\ Offset(disk, log.pos) + last.len >= 4 * file.snapshot_size

(***************************************************************************)
(* Properties of the replay (specification SpecReplay).                    *)
(***************************************************************************)
\* Opening the first i records of the file the way the file was opened:
\* its database is the database as of record i.
AsOf(i) == ovsdb_file_open(SubSeq(disk, 1, i), alt)

\* The file has just been opened.
JustOpened == log.open /\ last.op = "open" /\ last.ret = "ok"

\* Delta json maps the UUID of a row that database d does not hold to
\* null.
DeletesMissing(json, d) ==
    /\ json.type = "object"
    /\ \E t \in (DOMAIN json.obj) \cap (DOMAIN d.schema) :
          /\ json.obj[t].type = "object"
          /\ \E u \in (DOMAIN json.obj[t].obj) \cap Uuids :
                /\ json.obj[t].obj[u].type = "null"
                /\ u \notin DOMAIN d.tables[t]

\* The decoder's loop over delta json, on database d, has changed the
\* tables by the time it ends.
ChangesTables(json, d) ==
    /\ json.type = "object"
    /\ TxnTablesFromJson(d.schema, d.tables, alt # NoSchema, json.obj).tables
           # d.tables

\* The replay stopped before record i + 1, with the database as "before"
\* has it.
StoppedAt(i, before) ==
    /\ log.pos = i
    /\ last.replay_err
    /\ db = before.db

\* If the replay reaches record i + 1 and that record deletes a row that
\* does not exist, the replay stops there.
DeleteMissingStops(i, before) ==
    (~before.err /\ ~before.replay_err
        /\ DeletesMissing(disk[i + 1].json, before.db))
    => StoppedAt(i, before)

\* C8: when a file has been opened, a record that maps the UUID of a row
\* that does not exist at that point to null ended the replay: the open
\* succeeded, the log is positioned before that record and the database
\* is the database as of the preceding record, with none of the record's
\* operations applied.
C8_DeleteMissing ==
    JustOpened =>
        \A i \in 1..(Len(disk) - 1) : DeleteMissingStops(i, AsOf(i))

\* The replay stopped at a third record that deletes a missing row after
\* the decoder had applied another operation of that record; the record
\* before it had loaded a row.
C8_Witness ==
    /\ JustOpened /\ last.replay_err
    /\ Len(disk) = 3 /\ log.pos = 2
    /\ DeletesMissing(disk[3].json, db)
    /\ ChangesTables(disk[3].json, db)
    /\ db.tables["T"] # EmptyMap

\* The tables and columns of "tables" that schema a defines.
Project(tables, a) ==
    [t \in DOMAIN a |->
        [u \in DOMAIN tables[t] |->
            [c \in a[t].cols |-> tables[t][u][c]]]]

\* The open r of the whole file with its own schema replayed every record.
ReplaysAll(r) == ~r.err /\ ~r.replay_err /\ r.pos = Len(disk)

\* Delta json names a table that schema does not define, or a column
\* that its table does not define.
MentionsUnknown(json, schema) ==
    /\ json.type = "object"
    /\ \/ \E t \in DOMAIN json.obj :
             t \notin (DOMAIN schema) \cup {"_date", "_comment"}
       \/ \E t \in (DOMAIN json.obj) \cap (DOMAIN schema) :
             /\ json.obj[t].type = "object"
             /\ \E u \in DOMAIN json.obj[t].obj :
                   /\ json.obj[t].obj[u].type = "object"
                   /\ \E c \in DOMAIN json.obj[t].obj[u].obj :
                         c \notin schema[t].cols

\* The file, opened with alternate schema alt, loaded what the open r
\* with the file's own schema loads of the tables and columns alt has.
LoadedProjection(r) ==
    ReplaysAll(r) =>
        /\ ~last.replay_err
        /\ log.pos = Len(disk)
        /\ db.schema = alt
        /\ db.tables = Project(r.db.tables, alt)

\* If the replay reaches record i + 1 and that record names a table or
\* column that the schema does not define, the replay stops there.
UnknownStops(i, before) ==
    (~before.err /\ ~before.replay_err
        /\ MentionsUnknown(disk[i + 1].json, before.db.schema))
    => StoppedAt(i, before)

\* C9: a log that replays without error under its own schema, opened with
\* an alternate schema that omits a table or a column, replays without
\* error to its end and loads, for the tables and columns of the
\* alternate schema, what the log records; opened without an alternate
\* schema, a record naming a table or column that the schema does not
\* define is an error that ends the replay.
C9_Converting ==
    JustOpened =>
        IF alt # NoSchema
        THEN LoadedProjection(Reopen(disk))
        ELSE \A i \in 1..(Len(disk) - 1) : UnknownStops(i, AsOf(i))

\* A log whose records set columns k and v of row u1 of table T has been
\* opened with the alternate schema that has no column v: both records
\* were replayed and the row has its k.
C9_Witness ==
    /\ JustOpened /\ alt = SchemaNoV
    /\ Len(disk) = 3 /\ log.pos = 3 /\ ~last.replay_err
    /\ MentionsUnknown(disk[3].json, alt)
    /\ db.tables["T"] = [u1 |-> [_uuid |-> "u1", k |-> 1]]

\* C10: when the replay of an opened file ended at a record that could
\* not be decoded or committed, the database is exactly the database as
\* of the records before it: nothing of the failing record is applied.
C10_AllOrNothing ==
    (JustOpened /\ last.replay_err) =>
        /\ log.pos < Len(disk)
        /\ ~AsOf(log.pos).err
        /\ db = AsOf(log.pos).db

\* The replay ended at a record in which a value is out of range, after
\* the decoder had applied another operation of that record.
C10_Witness ==
    /\ JustOpened /\ last.replay_err
    /\ Len(disk) = 3 /\ log.pos = 2
    /\ ~DeletesMissing(disk[3].json, db)
    /\ ~MentionsUnknown(disk[3].json, db.schema)
    /\ ChangesTables(disk[3].json, db)
    /\ db.tables["T"] # EmptyMap

\* Record rec cannot be read, or its delta cannot be decoded on database
\* d, or the engine refuses to commit the decoded transaction.
RecordFails(rec, d, converting) ==
    \/ ~rec.ok
    \/ ovsdb_file_txn_from_json(d, rec.json, converting).err
    \/ ovsdb_txn_commit(
           d, ovsdb_file_txn_from_json(d, rec.json, converting).tables).err

\* Opening the first i records of the file with the alternate schema of
\* the last open.
PrefixOpen(i) == ovsdb_file_open(SubSeq(disk, 1, i), last.alt)

\* Record 0 is accepted, the i - 1 records after it replay without error
\* and the next record fails.
FirstFailure(i, before) ==
    /\ ~before.err
    /\ ~before.replay_err
    /\ RecordFails(disk[i + 1], before.db, last.alt # NoSchema)

\* The open succeeded, with the log positioned after record i and the
\* database as "before" has it.
OpenedUpTo(i, before) ==
    /\ last.ret = "ok" /\ last.replay_err
    /\ log.open /\ log.pos = i
    /\ db = before.db

\* C11: after any ovsdb_file_open() of a log whose record 0 is accepted,
\* if some later record is the first that cannot be read, decoded or
\* committed, the open returned success with the database equal to the
\* replay of the records before that one: neither it nor any record after
\* it is applied.
C11_ReplayStops ==
    last.op = "open" =>
        \A i \in 1..(Len(disk) - 1) :
            FirstFailure(i, PrefixOpen(i)) => OpenedUpTo(i, PrefixOpen(i))

\* The engine refused the first transaction of the log, and the record
\* after it is one that can be replayed on the database and changes it.
C11_Witness ==
    /\ last.op = "open" /\ last.ret = "ok" /\ last.replay_err
    /\ Len(disk) = 3 /\ log.pos = 1
    /\ disk[2].ok
    /\ ~ovsdb_file_txn_from_json(db, disk[2].json, alt # NoSchema).err
    /\ ~RecordFails(disk[3], db, alt # NoSchema)
    /\ ChangesTables(disk[3].json, db)

\* Delta json without its members "_date" and "_comment".
WithoutReserved(json) ==
    JObj([x \in (DOMAIN json.obj) \ ReservedKeys |-> json.obj[x]])

\* Decoding delta json on database d gives what decoding it without
\* "_date" and "_comment" gives: the same error or the same operations.
DecodesAsWithout(json, d, converting) ==
    ovsdb_file_txn_from_json(d, json, converting)
        = ovsdb_file_txn_from_json(d, WithoutReserved(json), converting)

\* Delta json has a member "_date" whose value is not an integer.
OddDate(json) ==
    /\ json.type = "object"
    /\ "_date" \in DOMAIN json.obj
    /\ json.obj["_date"].type # "integer"

\* Delta json has a member "_comment" whose value is not a string.
OddComment(json) ==
    /\ json.type = "object"
    /\ "_comment" \in DOMAIN json.obj
    /\ json.obj["_comment"].type # "string"

\* The intact records after record 0 whose payload is an object.
DeltaRecords ==
    {i \in 2..Len(disk) : disk[i].ok /\ disk[i].json.type = "object"}

\* C18 as stated: when a file has been opened, every delta of it decodes,
\* on the database as of the record before it and in the mode of the
\* open, as it would without "_date" and "_comment": the two keys give
\* no row operation and no error, whatever their values.
C18_ReservedIgnored ==
    JustOpened =>
        \A i \in DeltaRecords :
            DecodesAsWithout(disk[i].json, AsOf(i - 1).db, alt # NoSchema)

\* C18, amended: "_comment", whatever its value, and "_date" with an
\* integer value give no row operation and no error, converting or not;
\* "_date" with a value that is not an integer is ignored in the same way
\* when converting and is an error of the delta otherwise.
C18_ReservedIgnoredIntegerDate ==
    JustOpened =>
        \A i \in DeltaRecords :
            IF OddDate(disk[i].json) /\ alt = NoSchema
            THEN ovsdb_file_txn_from_json(AsOf(i - 1).db, disk[i].json,
                                          FALSE).err
            ELSE DecodesAsWithout(disk[i].json, AsOf(i - 1).db,
                                  alt # NoSchema)

\* A file opened without an alternate schema: its first delta has a
\* "_comment" that is an object naming a table and was replayed, loading
\* a row; its second delta has a "_date" that is a string and ended the
\* replay.
C18_Witness ==
    /\ JustOpened /\ alt = NoSchema /\ last.replay_err
    /\ Len(disk) = 3 /\ log.pos = 2
    /\ disk[2].ok /\ OddComment(disk[2].json) /\ ~OddDate(disk[2].json)
    /\ db.tables["T"] # EmptyMap
    /\ disk[3].ok /\ OddDate(disk[3].json)

\* Record i + 1 of the file was replayed by the open of the first i + 1
\* records that gave after.
Replayed(i, after) ==
    ~after.err /\ ~after.replay_err /\ after.pos = i + 1

\* The row that the object json makes of the row prior: the columns that
\* json lists and the table has take the recorded values, the others are
\* as in prior.
RowWith(prior, json) ==
    [c \in DOMAIN prior |->
        IF c \in DOMAIN json.obj THEN json.obj[c].int ELSE prior[c]]

\* The row of table t with UUID u and every other column at its default.
DefaultRow(d, t, u) ==
    [c \in d.schema[t].cols |-> IF c = "_uuid" THEN u ELSE DefaultDatum]

\* Every object of delta json under a table t and a UUID u has modified
\* the row that database before held, or inserted a row if it held none,
\* and database after holds the result.
RowEntriesDecoded(json, before, after) ==
    \A t \in (DOMAIN json.obj) \cap (DOMAIN before.schema) :
        \A u \in DOMAIN json.obj[t].obj :
            json.obj[t].obj[u].type = "object" =>
                /\ u \in DOMAIN after.tables[t]
                /\ after.tables[t][u] =
                       RowWith(IF u \in DOMAIN before.tables[t]
                               THEN before.tables[t][u]
                               ELSE DefaultRow(before, t, u),
                               json.obj[t].obj[u])

\* C23: when a file has been opened, every record that the replay
\* applied has, for each object under a UUID, modified the row of that
\* UUID that the database held before the record, so that the listed
\* columns have the recorded values and the others the values they had,
\* or, if the database held no such row before the record, inserted a
\* row with that UUID, the listed columns at the recorded values and the
\* others at the default.
C23_DecodeRow ==
    JustOpened =>
        \A i \in 1..(Len(disk) - 1) :
            Replayed(i, AsOf(i + 1)) =>
                RowEntriesDecoded(disk[i + 1].json, AsOf(i).db,
                                  AsOf(i + 1).db)

\* The first record inserted row u1 with column k alone, the second
\* modified it setting column v alone, and the row has both values.
C23_Witness ==
    /\ JustOpened /\ ~last.replay_err /\ alt = NoSchema
    /\ Len(disk) = 3 /\ log.pos = 3
    /\ "T" \in DOMAIN disk[2].json.obj /\ "T" \in DOMAIN disk[3].json.obj
    /\ "u1" \in DOMAIN disk[2].json.obj["T"].obj
    /\ "u1" \in DOMAIN disk[3].json.obj["T"].obj
    /\ disk[2].json.obj["T"].obj["u1"] = JObj([k |-> JInt(1)])
    /\ disk[3].json.obj["T"].obj["u1"] = JObj([v |-> JInt(1)])
    /\ db.tables["T"]["u1"] = [_uuid |-> "u1", k |-> 1, v |-> 1]

(***************************************************************************)
(* Properties of the commands of ovsdb-tool (specification SpecTool).      *)
(***************************************************************************)
\* The step is the call of ovsdb_file_open() by process p.
OpenStep(p) ==
    /\ last'.op = "tool_open"
    /\ tools[p].st = "idle" /\ tools'[p].st # "idle"

\* The log cannot be opened: there is no file, or the lock is wanted and
\* another process holds it.
CannotOpenLog(locking) ==
    ~fs.exists \/ (locking /\ fs.lock # NoHolder)

\* The file holds no record 0, or one that cannot be read.
NoRecord0 == Len(disk) = 0 \/ ~disk[1].ok

\* Record 0 can be read and is not a schema.
Record0NotSchema ==
    Len(disk) >= 1 /\ disk[1].ok /\ ~schema_from_json_ok(disk[1].json)

\* The caller got an error and nothing else: no database, no file
\* handle, and the log is closed, so that the lock is as it was.
OpenGaveNothing(t) ==
    /\ t.db = NoDb /\ t.file = NoFile
    /\ fs' = fs

\* The caller got a database with the alternate schema if one was given,
\* else with the schema of record 0.
OpenGaveSchema(t) ==
    t.db.schema = IF t.alt # NoSchema THEN t.alt
                  ELSE ovsdb_schema_from_json(disk[1].json)

\* C12: a call of ovsdb_file_open() returns an error if and only if the
\* log cannot be opened, or record 0 is missing or cannot be read, or no
\* alternate schema is given and record 0 is not a valid schema; on an
\* error the caller gets neither database nor file handle and the log is
\* closed; on success with an alternate schema, whatever record 0 holds,
\* the database has the alternate schema.
C12_OpenErrors ==
    [][\A p \in Procs :
          OpenStep(p) =>
              /\ (tools'[p].st = "failed") <=>
                     \/ CannotOpenLog(tools'[p].locking)
                     \/ NoRecord0
                     \/ (tools'[p].alt = NoSchema /\ Record0NotSchema)
              /\ IF tools'[p].st = "failed"
                 THEN OpenGaveNothing(tools'[p])
                 ELSE OpenGaveSchema(tools'[p])]_vars

\* On a file whose record 0 is not a schema, a convert has the database
\* open with its alternate schema and the row of the file's transaction,
\* and the open of a query has failed.
C12_Witness ==
    /\ Record0NotSchema
    /\ \E p, q \in Procs :
          /\ tools[p].st = "open" /\ tools[p].cmd = "convert"
          /\ tools[p].db.schema = SchemaNoS
          /\ tools[p].db.tables["T"] # EmptyMap
          /\ tools[q].st = "failed" /\ tools[q].cmd = "query"

\* The commands that open the database with locking: transact, and
\* compact and convert in place.
LockingCommands == {"transact", "compact", "convert"}

\* The processes that hold the log open for a command that locks.
Lockers ==
    {p \in Procs : tools[p].st \in {"open", "ran"}
                      /\ tools[p].cmd \in LockingCommands}

\* C19: at most one process at a time holds the log open for transact
\* or for compact or convert in place; an open by such a command while
\* another holds the log returns an error and changes neither the lock
\* nor the file; and an open by a command that does not lock (query,
\* compact with a destination) fails only if there is no file or the rest
\* of ovsdb_file_open() fails, whoever holds the lock.
C19_LockExclusion ==
    /\ [](Cardinality(Lockers) <= 1)
    /\ [][\A p \in Procs :
             OpenStep(p) =>
                 IF tools'[p].cmd \in LockingCommands
                 THEN Lockers # {} =>
                          /\ tools'[p].st = "failed"
                          /\ fs' = fs /\ disk' = disk
                 ELSE (tools'[p].st = "failed") <=>
                          \/ ~fs.exists
                          \/ ovsdb_file_open(disk, tools'[p].alt).err]_vars

\* One process has run a transact that wrote a record and still holds
\* the log; the open of a command that locks has just failed in the
\* other, on a file that opens without error.
C19_Witness ==
    /\ last.op = "tool_open" /\ last.ret = "error"
    /\ ~Reopen(disk).err
    /\ \E p, q \in Procs :
          /\ tools[p].st = "ran" /\ tools[p].cmd = "transact"
          /\ tools[p].pos = 3
          /\ fs.lock = p
          /\ tools[q].st = "failed" /\ tools[q].cmd \in LockingCommands

\* The step is a run of create by process p.
CreateStep(p) ==
    /\ last'.op = "tool_create"
    /\ tools[p].st = "idle" /\ tools'[p].st # "idle"

\* Database d has the tables of schema and no row in any of them.
EmptyDatabase(d, schema) ==
    /\ d.schema = schema
    /\ \A t \in DOMAIN schema : d.tables[t] = EmptyMap

\* The open r gave the database of a log just created from schema.
OpensAsCreated(r, schema) ==
    /\ ~r.err /\ ~r.replay_err
    /\ EmptyDatabase(r.db, schema)
    /\ r.n_transactions = 0 /\ r.snapshot_size = 0

\* C20: create on a path where a file exists fails and leaves the file
\* as it is; otherwise it leaves a log of exactly one record, the schema
\* it was given, and opening that log gives a database with that schema,
\* no row in any table, n_transactions = 0 and snapshot_size = 0, also
\* when a command opens it.
C20_Create ==
    [][\A p \in Procs :
          /\ CreateStep(p) =>
                 IF fs.exists
                 THEN /\ tools'[p].st = "failed"
                      /\ disk' = disk /\ fs' = fs
                 ELSE /\ tools'[p].st = "created"
                      /\ Len(disk') = 1 /\ disk'[1].ok
                      /\ disk'[1].json = ovsdb_schema_to_json(tools'[p].alt)
                      /\ OpensAsCreated(Reopen(disk'), tools'[p].alt)
          /\ (OpenStep(p) /\ tools'[p].st = "open"
                /\ tools'[p].alt = NoSchema
                /\ \E s \in CreateSchemas : disk = do_create(s)) =>
                 /\ EmptyDatabase(tools'[p].db,
                                  ovsdb_schema_from_json(disk[1].json))
                 /\ tools'[p].file.n_transactions = 0
                 /\ tools'[p].file.snapshot_size = 0]_vars

\* One process has created the database from the schema without table
\* S, and the other has just opened it for a transact.
C20_Witness ==
    /\ last.op = "tool_open" /\ last.ret = "ok"
    /\ disk = do_create(SchemaNoS)
    /\ \E p, q \in Procs :
          /\ tools[p].st = "created" /\ tools[p].alt = SchemaNoS
          /\ tools[q].st = "open" /\ tools[q].cmd = "transact"
          /\ EmptyDatabase(tools[q].db, SchemaNoS)
          /\ tools[q].file.n_transactions = 0

(***************************************************************************)
(* Properties of the encoder (specification SpecEncode).                   *)
(***************************************************************************)
\* The step hands a change to the callback.
ChangeStep == call'.fn = "commit" /\ call'.changes # call.changes

\* The change that was handed over last.
LastChange(c) == c.changes[Len(c.changes)]

\* What the transaction's JSON holds under table t and UUID u: NoJson if
\* nothing.
EntryOf(ftxn, t, u) ==
    IF ftxn.json = NoJson
    THEN NoJson
    ELSE IF t \notin DOMAIN ftxn.json.obj
    THEN NoJson
    ELSE IF u \notin DOMAIN ftxn.json.obj[t].obj
    THEN NoJson
    ELSE ftxn.json.obj[t].obj[u]

\* The persistent columns of table t other than the UUID column.
PersistentColumns(t) ==
    FullSchema[t].cols \ (FullSchema[t].eph \cup {"_uuid"})

\* The JSON object that maps the columns cols to their values in fields.
ColumnsObject(cols, fields) == JObj([c \in cols |-> JInt(fields[c])])

\* The entry e is what change ch is to be encoded as.
EncodedAs(e, ch) ==
    IF ~ch.new.present
    THEN e = JNull
    ELSE IF ~ch.old.present
    THEN e = ColumnsObject({c \in PersistentColumns(ch.table) :
                               ch.new.fields[c] # DefaultDatum},
                           ch.new.fields)
    ELSE IF PersistentColumns(ch.table) \cap ch.changed = {}
    THEN e = NoJson
    ELSE e = ColumnsObject(PersistentColumns(ch.table) \cap ch.changed,
                           ch.new.fields)

\* No object of a row in the transaction's JSON has the UUID column or a
\* column that is not persistent.
OnlyPersistent(ftxn) ==
    ftxn.json # NoJson =>
        \A t \in DOMAIN ftxn.json.obj :
            \A u \in DOMAIN ftxn.json.obj[t].obj :
                ftxn.json.obj[t].obj[u].type = "object" =>
                    DOMAIN ftxn.json.obj[t].obj[u].obj
                        \subseteq PersistentColumns(t)

\* C21: for every old row, new row and bitmap handed to the encoder, what
\* it puts under the row's UUID is null if there is no new row; if there
\* is no old row, an object with exactly the persistent columns other
\* than the UUID whose value in the new row is not the default; and if
\* there are both, an object with exactly the persistent columns other
\* than the UUID whose bit is set (nothing when there is no such column,
\* see C22).  No object has the UUID column or a column that is not
\* persistent.
C21_EncodeChange ==
    [][ChangeStep =>
          /\ EncodedAs(EntryOf(call'.ftxn, LastChange(call').table,
                               LastChange(call').uuid),
                       LastChange(call'))
          /\ OnlyPersistent(call'.ftxn)]_vars

\* The encoder was given a modification whose bitmap has the bits of the
\* UUID column and of column k, which keeps its value, and has put
\* column k alone under the row's UUID.
C21_Witness ==
    /\ call.fn = "commit" /\ Len(call.changes) = 1
    /\ call.changes[1].old.present /\ call.changes[1].new.present
    /\ call.changes[1].changed = {"_uuid", "k"}
    /\ call.changes[1].old.fields.k = call.changes[1].new.fields.k
    /\ call.changes[1].old.fields.v # call.changes[1].new.fields.v
    /\ EntryOf(call.ftxn, "T", call.changes[1].uuid)
           = JObj([k |-> JInt(call.changes[1].new.fields.k)])

\* The change is a modification without a persistent changed column.
QuietModify(ch) ==
    /\ ch.old.present /\ ch.new.present
    /\ PersistentColumns(ch.table) \cap ch.changed = {}

\* The change inserts a row whose persistent columns all hold the
\* default.
DefaultInsert(ch) ==
    /\ ~ch.old.present /\ ch.new.present
    /\ \A c \in PersistentColumns(ch.table) :
          ch.new.fields[c] = DefaultDatum

\* Replaying the transaction's JSON on the empty database gives a row u
\* in table t, with every column at its default.
ReplayMakesRow(ftxn, t, u) ==
    LET txn == ovsdb_file_txn_from_json(ovsdb_create(FullSchema),
                                        TxnRecordJson(ftxn.json, "", 0),
                                        FALSE)
    IN  /\ ~txn.err
        /\ u \in DOMAIN txn.tables[t]
        /\ txn.tables[t][u] = ovsdb_row_create(FullSchema, t, u)

\* C22: a modification that changes no persistent column other than the
\* UUID leaves the transaction's JSON as it was, without the row and
\* without a table that was not there; an insert whose persistent columns
\* all hold the default is emitted as an empty object under the row's
\* UUID, and the replay of a record with that insert alone creates the
\* row.
C22_Omission ==
    [][ChangeStep =>
          /\ QuietModify(LastChange(call')) => call'.ftxn = call.ftxn
          /\ DefaultInsert(LastChange(call')) =>
                 /\ EntryOf(call'.ftxn, LastChange(call').table,
                            LastChange(call').uuid) = JObj(EmptyMap)
                 /\ Len(call'.changes) = 1 =>
                        ReplayMakesRow(call'.ftxn, LastChange(call').table,
                                       LastChange(call').uuid)]_vars

\* The encoder was given the insert of a row of T with default values,
\* which it emitted as an empty object, and then a modification of the
\* non-persistent column of the row of S, for which the JSON has no
\* table S.
C22_Witness ==
    /\ call.fn = "commit" /\ Len(call.changes) = 2
    /\ call.changes[1].table = "T" /\ DefaultInsert(call.changes[1])
    /\ call.changes[2].table = "S" /\ QuietModify(call.changes[2])
    /\ call.changes[2].changed = {"e"}
    /\ DOMAIN call.ftxn.json.obj = {"T"}
    /\ EntryOf(call.ftxn, "T", call.changes[1].uuid) = JObj(EmptyMap)

\* What ovsdb_file_commit() writes for the transaction's JSON, as an
\* encoder state so that EntryOf applies: NoJson if it writes nothing.
RecordOf(ftxn) ==
    [json |-> IF ftxn.json = NoJson
              THEN NoJson
              ELSE TxnRecordJson(ftxn.json, "", 0)]

\* The changes handed over that yield a row entry, by their index.
RowEntries(c) == {i \in DOMAIN c.changes : ~QuietModify(c.changes[i])}

\* Every change that yields a row entry is in the record, under its
\* table and UUID, as it was encoded.
AllEntriesWritten(c) ==
    \A i \in RowEntries(c) :
        /\ EntryOf(RecordOf(c.ftxn), c.changes[i].table, c.changes[i].uuid)
               # NoJson
        /\ EncodedAs(EntryOf(RecordOf(c.ftxn), c.changes[i].table,
                             c.changes[i].uuid),
                     c.changes[i])

\* The changes that yield a row entry come table by table: none comes
\* back to a table after a row entry of another table.
TableByTable(c) ==
    \A i, j, k \in RowEntries(c) :
        (i < j /\ j < k /\ c.changes[i].table = c.changes[k].table)
            => c.changes[j].table = c.changes[i].table

\* C30 as stated: every change handed to the encoder that yields a row
\* entry is in the record under its table and UUID, whatever the order of
\* the changes.
C30_NoChangeLost ==
    call.fn = "commit" => AllEntriesWritten(call)

\* C30, amended: every change handed to the encoder that yields a row
\* entry is in the record under its table and UUID if the changes come
\* table by table, in any order of the tables and of the rows of a
\* table; if a row entry of a table comes after a row entry of another
\* table that came after a row entry of the first, an earlier row entry
\* is not in the record.
C30_NoChangeLostByTable ==
    call.fn = "commit" => (AllEntriesWritten(call) <=> TableByTable(call))

\* Three changes with row entries were handed over, two rows of T and
\* then the row of S, and the record has all three.
C30_Witness ==
    /\ call.fn = "commit" /\ Len(call.changes) = 3
    /\ RowEntries(call) = {1, 2, 3}
    /\ call.changes[1].table = "T" /\ call.changes[2].table = "T"
    /\ call.changes[3].table = "S"
    /\ DOMAIN call.ftxn.json.obj["T"].obj = {"u1", "u2"}
    /\ DOMAIN call.ftxn.json.obj["S"].obj = {"u3"}
    /\ AllEntriesWritten(call)

(***************************************************************************)
(* Properties of the ratio test (specification SpecRatio).                 *)
(***************************************************************************)
\* C26: for non-negative log and snapshot sizes, the ratio test of the
\* gate is true exactly when the log size is at least 4 times the
\* snapshot size, also when the log size is not a multiple of 4.
C26_RatioExact ==
    (call.fn = "gate" /\ call.tested) =>
        /\ call.log_size >= 0 /\ call.snapshot_size >= 0
        /\ call.ratio <=> (call.log_size >= 4 * call.snapshot_size)

\* The test was true of a log size that is not a multiple of 4 and is
\* less than 4 bytes over 4 times the snapshot size.
C26_Witness ==
    /\ call.fn = "gate" /\ call.tested /\ call.ratio
    /\ call.log_size % 4 # 0
    /\ call.log_size >= GateMinLogSize
    /\ call.log_size < 4 * call.snapshot_size + 4

(***************************************************************************)
(* Properties of show-log (specification SpecShow).                        *)
(***************************************************************************)
\* show-log has just rendered a transaction record.
ShownRecord ==
    call.fn = "show-log" /\ call.end = "no" /\ call.i >= 2

\* The "_date" of the record just rendered is an integer.
ShownDateInteger ==
    /\ "_date" \in DOMAIN disk[call.i].json.obj
    /\ disk[call.i].json.obj["_date"].type = "integer"

ShownDate == disk[call.i].json.obj["_date"].int

\* t is in [-2^31, 2^31 - 1].
FitsInt32(t) == ~LLLess(t, LL(-32768, 0)) /\ ~LLLess(INT32_MAX, t)

\* C27: the time rendered for an integer "_date" is the value times 1000
\* when the value is in [-2^31, 2^31 - 1] and the value itself when it
\* is larger.
C27_DateHeuristic ==
    (ShownRecord /\ ShownDateInteger) =>
        /\ call.time.shown
        /\ FitsInt32(ShownDate) => call.time.t = LLTimes1000(ShownDate)
        /\ LLLess(INT32_MAX, ShownDate) => call.time.t = ShownDate

\* The row UUIDs of the logs shown.
ShownUuids == {ShowUuidT, ShowUuidS}

\* The tables of record j that have an entry for row u.
TablesWith(j, u) ==
    {t \in DOMAIN disk[j].json.obj :
        /\ t \notin {"_date", "_comment"}
        /\ disk[j].json.obj[t].type = "object"
        /\ u \in DOMAIN disk[j].json.obj[t].obj}

\* Record j has an entry for row u, and the entry.
HasEntry(j, u) == TablesWith(j, u) # {}

EntryIn(j, u) ==
    disk[j].json.obj[CHOOSE t \in TablesWith(j, u) : TRUE].obj[u]

\* The most recent entry for row u in records 2..j is an object.
RECURSIVE LastEntryIsObject(_, _)
LastEntryIsObject(j, u) ==
    IF j < 2 THEN FALSE
    ELSE IF HasEntry(j, u) THEN EntryIn(j, u).type = "object"
    ELSE LastEntryIsObject(j - 1, u)

\* The most recent name recorded for row u in records 2..j since its
\* last insert, or the first eight characters of u.
RECURSIVE LastName(_, _)
LastName(j, u) ==
    IF j < 2 THEN SubSeq(u, 1, 8)
    ELSE IF ~HasEntry(j, u) THEN LastName(j - 1, u)
    ELSE IF EntryIn(j, u).type # "object" THEN SubSeq(u, 1, 8)
    ELSE IF "name" \in DOMAIN EntryIn(j, u).obj
    THEN "\"" \o EntryIn(j, u).obj["name"].str \o "\""
    ELSE LastName(j - 1, u)

\* C28: with verbosity 1, after any prefix of the records is rendered
\* the name map holds exactly the rows whose most recent entry was an
\* object, each with the most recent name recorded since its last insert
\* or else the first eight characters of its UUID; and each row of the
\* record just rendered was rendered as an insert exactly when it was
\* not in the map before that record.
C28_NameTracking ==
    (call.fn = "show-log" /\ call.verbosity >= 1 /\ call.i >= 1) =>
        /\ DOMAIN call.names =
               {u \in ShownUuids : LastEntryIsObject(call.i, u)}
        /\ \A u \in DOMAIN call.names : call.names[u] = LastName(call.i, u)
        /\ {l.uuid : l \in call.lines} =
               {u \in ShownUuids : call.i >= 2 /\ HasEntry(call.i, u)}
        /\ \A l \in call.lines :
               l.insert <=> ~LastEntryIsObject(call.i - 1, l.uuid)

\* Three records are rendered: the row was inserted with a name, deleted
\* and inserted again without one, so that the map holds the first
\* eight characters of its UUID; the last record was rendered as an
\* insert.
C28_Witness ==
    /\ call.fn = "show-log" /\ call.verbosity = 1 /\ call.i = 4
    /\ Len(disk) = 4
    /\ HasEntry(2, ShowUuidT) /\ EntryIn(2, ShowUuidT) = JObj([name |-> JStr("a")])
    /\ HasEntry(3, ShowUuidT) /\ EntryIn(3, ShowUuidT) = JNull
    /\ HasEntry(4, ShowUuidT) /\ EntryIn(4, ShowUuidT) = JObj([v |-> JInt(1)])
    /\ ShowUuidT \in DOMAIN call.names
    /\ call.names[ShowUuidT] = "1f0e2a7c"
    /\ \E l \in call.lines : l.uuid = ShowUuidT /\ l.insert

(***************************************************************************)
(* Properties of the file under failing I/O (specification SpecIo).        *)
(***************************************************************************)
\* C29: whenever a database file is open and no operation is in progress
\* on it, n_transactions is the number of records after the schema that
\* the log holds up to its write position, also after an open whose
\* replay stopped on an error.
C29_CountMatchesLog ==
    log.open => file.n_transactions = log.pos - 1

(***************************************************************************)
(* Properties of writing after a stopped replay (specification             *)
(* SpecRecover).                                                           *)
(***************************************************************************)
\* The step is a successful durable commit that wrote its record with
\* the log positioned before records the replay of the open did not
\* take.
CommitAfterStoppedReplay ==
    /\ last'.op = "commit" /\ last'.ret = "ok"
    /\ last'.wrote /\ last'.durable
    /\ last'.behind > 0

\* C31: a transaction committed successfully with durable = true after
\* an open whose replay stopped at a bad or undecodable record is in the
\* database that closing and reopening the log gives: the reopen replays
\* the whole log, the new record last, and loads the persistent
\* contents the database has after the commit, which differ from those
\* before it.
C31_CommitAfterTolerantOpen ==
    [][CommitAfterStoppedReplay =>
         /\ disk' = Append(SubSeq(disk, 1, log.pos), disk'[Len(disk')])
         /\ ~Reopen(disk').replay_err
         /\ Reopen(disk').pos = Len(disk')
         /\ ~Reopen(disk').err
         /\ Persist(Reopen(disk').db) = Persist(db')
         /\ Persist(db') # Persist(db)]_vars

\* A durable commit has written record 2 of the file in the place of the
\* two records that lay behind the log's position, the record that
\* stopped the replay and the one after it, and the file now replays
\* without an error to the database's persistent contents.
C31_Witness ==
    /\ last.op = "commit" /\ last.ret = "ok" /\ last.wrote /\ last.durable
    /\ last.behind = 2
    /\ Len(disk) = 2 /\ log.pos = 2 /\ synced = 2
    /\ ~Reopen(disk).replay_err
    /\ Persist(Reopen(disk).db) = Persist(db)

(***************************************************************************)
(* Properties of the replacement log of a compaction (specification        *)
(* SpecGate).                                                              *)
(***************************************************************************)
\* ovsdb_file_compact() has just returned to the gate of a commit.
CompactReturned == last.op = "commit" /\ last.gate

\* C32: whenever ovsdb_file_compact() returns, with success or with an
\* error at any step after ovsdb_log_replace_start() succeeded, the
\* replacement log that ovsdb_log_replace_start() created is no longer
\* open or pending.
C32_NoReplacementLeft == CompactReturned => last.new_log = "none"

(***************************************************************************)
(* Properties of saving a copy (specification SpecCopy).                   *)
(***************************************************************************)
\* ovsdb_file_save_copy() has just returned.
SaveCopyReturned == last'.op = "save_copy"

\* The destination holds the schema of database d and one delta that
\* replays to the persistent contents of d, both on stable storage.
HoldsSnapshot(f, recs, n, d) ==
    /\ f.exists
    /\ Len(recs) = 2
    /\ n = 2
    /\ recs[1].json = ovsdb_schema_to_json(d.schema)
    /\ ~Reopen(recs).err
    /\ ~Reopen(recs).replay_err
    /\ Reopen(recs).pos = 2
    /\ Persist(Reopen(recs).db) = Persist(d)

\* C34: ovsdb_file_save_copy() never alters or removes a destination
\* that existed before the call, the call failing; when the destination
\* did not exist, either the call succeeds and the destination holds
\* exactly the schema and one snapshot delta, made durable, or it fails
\* and no destination file remains.
C34_SaveCopy ==
    [][SaveCopyReturned =>
         /\ db' = db
         /\ IF fs.exists
            THEN /\ last'.ret = "error"
                 /\ fs' = fs
                 /\ disk' = disk
                 /\ synced' = synced
            ELSE \/ /\ last'.ret = "ok"
                    /\ HoldsSnapshot(fs', disk', synced', db)
                 \/ /\ last'.ret = "error"
                    /\ ~fs'.exists
                    /\ disk' = <<>>]_vars

\* A copy of a database with a row has been saved where there was no
\* file.
C34_Witness ==
    /\ last.op = "save_copy"
    /\ last.ret = "ok"
    /\ HoldsSnapshot(fs, disk, synced, db)
    /\ \E t \in DOMAIN db.tables : DOMAIN db.tables[t] # {}

====
